---------------------------- MODULE Spec2Model ----------------------------
(***************************************************************************)
(* A model of the Chunked Dataset Access Engine of IconBoard:              *)
(*   - LRUCache            (src/src/index.js, lines 33-126)                *)
(*   - ChunkedIconAPI      (src/src/services/api.js, lines 27-472)         *)
(*                                                                         *)
(* JavaScript strings are modelled as sequences of one-character strings,  *)
(* so that toLowerCase, trim, replace, substring and includes are computed *)
(* and not assumed.  A JavaScript Map is a sequence of [key, value]        *)
(* entries in insertion order and a JavaScript Set is a sequence without   *)
(* duplicates in insertion order, because iteration order is observable    *)
(* (the order of search results, the scan order of cached chunks).         *)
(***************************************************************************)
EXTENDS Integers, Sequences, FiniteSets, TLC

VARIABLES
    chunksIndex,      \* ChunkedIconAPI.chunksIndex
    categoryChunks,   \* ChunkedIconAPI.categoryChunks
    loadedChunks,     \* ChunkedIconAPI.loadedChunks : LRUCache
    searchIndex,      \* ChunkedIconAPI.searchIndex  : Map term -> Set of ids
    iconMetadata,     \* ChunkedIconAPI.iconMetadata : Map id -> metadata
    iconToChunk,      \* ChunkedIconAPI.iconToChunk  : Map id -> chunk number
    last,             \* observation of the last call: arguments, result, fetches
    hist              \* history of the cache: access times, promotions

vars == <<chunksIndex, categoryChunks, loadedChunks, searchIndex,
          iconMetadata, iconToChunk, last, hist>>

engineVars == <<chunksIndex, categoryChunks, searchIndex, iconMetadata, iconToChunk>>

-----------------------------------------------------------------------------
(* Bounds of the model *)

\* capacity given to the engine's cache (the program passes 50; scaled)
CacheCapacity == 2
\* keys used by the cache's own state machine
MaxKey == 3
\* largest limit passed to getIcons and searchIcons
MaxLimit == 4
\* largest capacity tried by the cache's own state machine
MaxCapacity == 2
\* number of cache operations in one behaviour of the cache's state machine
MaxOps == 5
\* number of loadChunk calls in one behaviour of loadChunk's state machine
MaxLoads == 4

-----------------------------------------------------------------------------
(* Sequences *)

Range(seq) == {seq[i] : i \in 1..Len(seq)}

\* Array.prototype.indexOf, 1-based; 0 stands for -1
IndexOf(seq, x) ==
    IF \E i \in 1..Len(seq) : seq[i] = x
    THEN CHOOSE i \in 1..Len(seq) : seq[i] = x /\ \A j \in 1..(i-1) : seq[j] # x
    ELSE 0

\* Array.prototype.splice(i, 1)
RemoveAt(seq, i) == SubSeq(seq, 1, i-1) \o SubSeq(seq, i+1, Len(seq))

\* Array.prototype.slice(0, n) for n >= 0
Slice(seq, n) == SubSeq(seq, 1, IF n < Len(seq) THEN n ELSE Len(seq))

\* Math.min
Min(a, b) == IF a < b THEN a ELSE b

-----------------------------------------------------------------------------
(* JavaScript Map: the keys in insertion order, and the value of each key   *)

\* new Map()
NewMap == [keys |-> <<>>, val |-> [k \in {} |-> k]]

\* Map.prototype.size
MapSize(m) == Len(m.keys)

\* Map.prototype.keys, in insertion order
MapKeys(m) == m.keys

MapKeySet(m) == DOMAIN m.val

\* Map.prototype.has
MapHas(m, k) == k \in DOMAIN m.val

\* Map.prototype.get of a key that is present
MapGet(m, k) == m.val[k]

\* Map.prototype.values, in insertion order
MapValues(m) == [i \in 1..Len(m.keys) |-> m.val[m.keys[i]]]

\* Map.prototype.set: an existing key keeps its place
MapSet(m, k, v) ==
    IF MapHas(m, k)
    THEN [m EXCEPT !.val[k] = v]
    ELSE [keys |-> Append(m.keys, k), val |-> (k :> v) @@ m.val]

\* Map.prototype.delete
MapDelete(m, k) ==
    [keys |-> SelectSeq(m.keys, LAMBDA key : key # k),
     val |-> [key \in DOMAIN m.val \ {k} |-> m.val[key]]]

\* Set.prototype.add on a Set kept as a sequence without duplicates
SetAdd(s, x) == IF \E i \in 1..Len(s) : s[i] = x THEN s ELSE Append(s, x)

-----------------------------------------------------------------------------
(* LRUCache *)

Undefined == "undefined"

NewLRUCache(maxSize) == [maxSize |-> maxSize, cache |-> NewMap, accessOrder |-> <<>>]

LRUHas(c, key) == MapHas(c.cache, key)

LRUSize(c) == MapSize(c.cache)

LRUKeys(c) == MapKeySet(c.cache)

\* moveToEnd(key) that pushes the key without removing it from its place
MoveToEnd_NoSplice(c, key) == [c EXCEPT !.accessOrder = Append(c.accessOrder, key)]

MoveToEnd(c, key) ==
    LET index == IndexOf(c.accessOrder, key)
        removed == IF index > 0 THEN RemoveAt(c.accessOrder, index) ELSE c.accessOrder
    IN [c EXCEPT !.accessOrder = Append(removed, key)]

\* get(key) that forgets to promote the key
LRUGet_NoPromote(c, key) == c

\* the cache after get(key)
LRUGet(c, key) == IF LRUHas(c, key) THEN MoveToEnd(c, key) ELSE c

\* the value get(key) returns
LRUGetValue(c, key) == IF LRUHas(c, key) THEN MapGet(c.cache, key) ELSE Undefined

\* eviction that takes the newest key (pop) instead of the oldest (shift)
EvictLRU_Newest(c) ==
    IF Len(c.accessOrder) = 0
    THEN c
    ELSE [c EXCEPT !.cache = MapDelete(c.cache, c.accessOrder[Len(c.accessOrder)]),
                   !.accessOrder = SubSeq(c.accessOrder, 1, Len(c.accessOrder) - 1)]

\* accessOrder.shift() followed by cache.delete(lru)
EvictLRU(c) ==
    IF Len(c.accessOrder) = 0
    THEN c
    ELSE [c EXCEPT !.cache = MapDelete(c.cache, Head(c.accessOrder)),
                   !.accessOrder = Tail(c.accessOrder)]

\* set(key, value) that never evicts
LRUSet_NoEvict(c, key, value) ==
    IF LRUHas(c, key)
    THEN MoveToEnd([c EXCEPT !.cache = MapSet(c.cache, key, value)], key)
    ELSE [c EXCEPT !.cache = MapSet(c.cache, key, value),
                   !.accessOrder = Append(c.accessOrder, key)]

\* set(key, value) that only promotes an existing key and keeps its old value
LRUSet_KeepOld(c, key, value) ==
    IF LRUHas(c, key)
    THEN MoveToEnd(c, key)
    ELSE LET room == IF LRUSize(c) >= c.maxSize THEN EvictLRU(c) ELSE c
         IN [room EXCEPT !.cache = MapSet(room.cache, key, value),
                         !.accessOrder = Append(room.accessOrder, key)]

LRUSet(c, key, value) ==
    IF LRUHas(c, key)
    THEN MoveToEnd([c EXCEPT !.cache = MapSet(c.cache, key, value)], key)
    ELSE LET room == IF LRUSize(c) >= c.maxSize THEN EvictLRU(c) ELSE c
         IN [room EXCEPT !.cache = MapSet(room.cache, key, value),
                         !.accessOrder = Append(room.accessOrder, key)]

\* delete(key) that leaves the key in the recency list
LRUDelete_KeepOrder(c, key) ==
    IF LRUHas(c, key) THEN [c EXCEPT !.cache = MapDelete(c.cache, key)] ELSE c

LRUDelete(c, key) ==
    IF LRUHas(c, key)
    THEN LET index == IndexOf(c.accessOrder, key)
         IN [c EXCEPT !.cache = MapDelete(c.cache, key),
                      !.accessOrder = IF index > 0 THEN RemoveAt(c.accessOrder, index)
                                      ELSE c.accessOrder]
    ELSE c

LRUClear(c) == [c EXCEPT !.cache = NewMap, !.accessOrder = <<>>]

-----------------------------------------------------------------------------
(* JavaScript strings as sequences of one-character strings *)

UpperChars == <<"A","B","C","D","E","F","G","H","I","J","K","L","M",
                "N","O","P","Q","R","S","T","U","V","W","X","Y","Z">>

LowerChars == <<"a","b","c","d","e","f","g","h","i","j","k","l","m",
                "n","o","p","q","r","s","t","u","v","w","x","y","z">>

ToLowerChar(ch) ==
    IF \E i \in 1..Len(UpperChars) : UpperChars[i] = ch
    THEN LowerChars[CHOOSE i \in 1..Len(UpperChars) : UpperChars[i] = ch]
    ELSE ch

\* String.prototype.toLowerCase
ToLowerCase(str) == [i \in 1..Len(str) |-> ToLowerChar(str[i])]

IsSpace(ch) == ch = " "

\* String.prototype.trim
Trim(str) ==
    IF \A i \in 1..Len(str) : IsSpace(str[i])
    THEN <<>>
    ELSE LET first == CHOOSE i \in 1..Len(str) :
                         ~IsSpace(str[i]) /\ \A j \in 1..(i-1) : IsSpace(str[j])
             final == CHOOSE i \in 1..Len(str) :
                         ~IsSpace(str[i]) /\ \A j \in (i+1)..Len(str) : IsSpace(str[j])
         IN SubSeq(str, first, final)

\* String.prototype.includes
Includes(str, part) ==
    \E i \in 0..(Len(str) - Len(part)) : SubSeq(str, i + 1, i + Len(part)) = part

\* String.prototype.replace(pattern, replacement) with a string pattern:
\* only the first occurrence is replaced
ReplaceFirst(str, pattern, replacement) ==
    IF Includes(str, pattern)
    THEN LET i == CHOOSE i \in 0..(Len(str) - Len(pattern)) :
                     /\ SubSeq(str, i + 1, i + Len(pattern)) = pattern
                     /\ \A j \in 0..(i-1) : SubSeq(str, j + 1, j + Len(pattern)) # pattern
         IN SubSeq(str, 1, i) \o replacement \o SubSeq(str, i + Len(pattern) + 1, Len(str))
    ELSE str

\* String.prototype.replace(/[chars]/g, replacement)
RECURSIVE ReplaceChars(_, _, _)
ReplaceChars(str, chars, replacement) ==
    IF str = <<>>
    THEN <<>>
    ELSE (IF Head(str) \in chars THEN replacement ELSE <<Head(str)>>)
            \o ReplaceChars(Tail(str), chars, replacement)

\* String.prototype.substring(0, i)
Substring0(str, i) == SubSeq(str, 1, i)

-----------------------------------------------------------------------------
(* The static files the engine reads: chunks/icons-<N>.json,               *)
(* chunks-index.json and category-chunks.json, as the build tooling writes *)
(* them (scripts/generate-icons-data.js).                                  *)

DotSvg == <<".", "s", "v", "g">>

\* one record of a chunk file
MkIcon(category, name) ==
    [id |-> category \o <<"_">> \o name,
     name |-> name,
     category |-> category,
     filename |-> name \o DotSvg,
     svgContent |-> <<"<">> \o name \o <<">">>,
     tags |-> <<category, ReplaceChars(ReplaceChars(name, {"-"}, <<" ">>), {"_"}, <<" ">>)>>]

CatDev == <<"d", "v">>

CatUi == <<"u", "i">>

\* chunks/icons-1.json, chunks/icons-2.json, ...
Dataset ==
    << << MkIcon(CatDev, <<"h", "u", "b">>), MkIcon(CatDev, <<"h", "-", "u">>) >>,
       << MkIcon(CatUi,  <<"H", "u">>),      MkIcon(CatUi,  <<"d", "v", "x">>) >>,
       << MkIcon(CatDev, <<"h", "u", "_", "d">>), MkIcon(CatUi, <<"h", "u", "e">>) >> >>

NumChunks == Len(Dataset)

ChunkNumbers == 1..NumChunks

AllIcons == UNION {Range(Dataset[n]) : n \in ChunkNumbers}

AllIds == {icon.id : icon \in AllIcons}

\* the number of the chunk file that contains the record with this id
ChunkContaining(id) ==
    CHOOSE n \in ChunkNumbers : \E i \in 1..Len(Dataset[n]) : Dataset[n][i].id = id

\* chunks-index.json
ChunksIndexFile == [loaded |-> TRUE, total_chunks |-> NumChunks]

\* category-chunks.json: category -> chunk numbers, in chunk order
RECURSIVE CategoryMapping(_, _)
CategoryMapping(n, mapping) ==
    IF n > NumChunks
    THEN mapping
    ELSE LET cats == [i \in 1..Len(Dataset[n]) |-> Dataset[n][i].category]
             AddIcon(m, category) ==
                 LET nums == IF MapHas(m, category) THEN MapGet(m, category) ELSE <<>>
                 IN MapSet(m, category, SetAdd(nums, n))
             RECURSIVE AddAll(_, _)
             AddAll(m, i) == IF i > Len(cats) THEN m ELSE AddAll(AddIcon(m, cats[i]), i + 1)
         IN CategoryMapping(n + 1, AddAll(mapping, 1))

CategoryChunksFile == [loaded |-> TRUE, map |-> CategoryMapping(1, NewMap)]

-----------------------------------------------------------------------------
(* The history kept beside the cache (used by the cache's own state machine) *)

Keys == 1..MaxKey

LRUValues == {"a", "b"}

HistInit ==
    [ops |-> 0,
     stamp |-> [k \in Keys |-> 0],
     owed |-> [k \in Keys |-> {}],
     promoted |-> [k \in Keys |-> FALSE],
     pure |-> TRUE,
     inserted |-> <<>>]

-----------------------------------------------------------------------------
(* The engine's state after construction (ChunkedIconAPI.constructor) *)

NullIndex == [loaded |-> FALSE, total_chunks |-> 0]

NullCategories == [loaded |-> FALSE, map |-> NewMap]

EngineFieldsInit ==
    /\ chunksIndex = NullIndex
    /\ categoryChunks = NullCategories
    /\ searchIndex = NewMap
    /\ iconMetadata = NewMap
    /\ iconToChunk = NewMap


\* the engine as one value: the fields of ChunkedIconAPI and the requests
\* issued so far by the running call
NewEngine ==
    [chunksIndex |-> NullIndex,
     categoryChunks |-> NullCategories,
     loadedChunks |-> NewLRUCache(CacheCapacity),
     searchIndex |-> NewMap,
     iconMetadata |-> NewMap,
     iconToChunk |-> NewMap,
     log |-> <<>>]

\* a request was issued, and answered or not
Fetch(e, kind, n, ok) == [e EXCEPT !.log = Append(@, [kind |-> kind, n |-> n, ok |-> ok])]

-----------------------------------------------------------------------------
(* What the network does during one call: the chunk files whose requests   *)
(* fail, the order in which concurrent chunk requests are answered, which  *)
(* source of the chunk index answers, and how many requests for the        *)
(* category map fail before one succeeds.                                  *)

\* fetch(chunks/icons-<n>.json) followed by response.json() succeeds
ChunkFetchOk(n, env) == n \in ChunkNumbers /\ n \notin env.fail

-----------------------------------------------------------------------------
(* indexIconsFromChunk *)

Metadata(icon) ==
    [id |-> icon.id, name |-> icon.name, category |-> icon.category,
     tags |-> icon.tags, filename |-> icon.filename]

\* if (!searchIndex.has(term)) searchIndex.set(term, new Set());
\* searchIndex.get(term).add(id)
\* AddToIndex with an array in place of the Set: the id is appended even when
\* the term already lists it
AddToIndex_Again(index, term, id) ==
    MapSet(index, term, Append(IF MapHas(index, term) THEN MapGet(index, term) ELSE <<>>, id))

AddToIndex(index, term, id) ==
    MapSet(index, term, SetAdd(IF MapHas(index, term) THEN MapGet(index, term) ELSE <<>>, id))

\* for (let i = 2; i <= term.length; i++) add term.substring(0, i)
RECURSIVE IndexPartials(_, _, _, _)
IndexPartials(index, term, id, i) ==
    IF i > Len(term)
    THEN index
    ELSE IndexPartials(AddToIndex(index, Substring0(term, i), id), term, id, i + 1)

\* IndexTerm without the loop over the partial terms
IndexTerm_NoPartials(index, term, id) ==
    IF Len(term) > 1 THEN AddToIndex(index, term, id) ELSE index

IndexTerm(index, term, id) ==
    IF Len(term) > 1
    THEN IndexPartials(AddToIndex(index, term, id), term, id, 2)
    ELSE index

SearchTerms(icon) ==
    <<ToLowerCase(icon.name), ToLowerCase(icon.category)>>
    \o [i \in 1..Len(icon.tags) |-> ToLowerCase(icon.tags[i])]
    \o <<ReplaceFirst(ToLowerCase(icon.filename), DotSvg, <<>>),
         ReplaceChars(ToLowerCase(icon.name), {"-", "_"}, <<" ">>),
         ReplaceChars(ToLowerCase(icon.name), {"-", "_", " "}, <<>>)>>

RECURSIVE IndexTerms(_, _, _, _)
IndexTerms(index, terms, id, j) ==
    IF j > Len(terms)
    THEN index
    ELSE CHOOSE result \in {IndexTerms(next, terms, id, j + 1) :
                               next \in {IndexTerm(index, terms[j], id)}} : TRUE

\* IndexIcon without this.iconToChunk.set(icon.id, chunkNumber)
IndexIcon_NoLocator(e, icon, chunkNumber) ==
    [e EXCEPT !.iconMetadata = MapSet(@, icon.id, Metadata(icon)),
              !.searchIndex = IndexTerms(@, SearchTerms(icon), icon.id, 1)]

IndexIcon(e, icon, chunkNumber) ==
    [e EXCEPT !.iconMetadata = MapSet(@, icon.id, Metadata(icon)),
              !.iconToChunk = MapSet(@, icon.id, chunkNumber),
              !.searchIndex = IndexTerms(@, SearchTerms(icon), icon.id, 1)]

RECURSIVE IndexIconsFrom(_, _, _, _)
IndexIconsFrom(e, icons, chunkNumber, i) ==
    IF i > Len(icons)
    THEN e
    ELSE CHOOSE result \in {IndexIconsFrom(next, icons, chunkNumber, i + 1) :
                               next \in {IndexIcon(e, icons[i], chunkNumber)}} : TRUE

\* IndexIconsFromChunk that rebuilds the tables from the chunk indexed
IndexIconsFromChunk_Rebuild(e, icons, chunkNumber) ==
    IndexIconsFrom([e EXCEPT !.searchIndex = NewMap, !.iconMetadata = NewMap,
                             !.iconToChunk = NewMap],
                   icons, chunkNumber, 1)

IndexIconsFromChunk(e, icons, chunkNumber) == IndexIconsFrom(e, icons, chunkNumber, 1)

-----------------------------------------------------------------------------
(* loadChunk, alone and under Promise.all(batch.map(loadChunk))            *)

\* loadChunk up to its first await: a cached chunk is read (and promoted),
\* an uncached one is requested
RECURSIVE StartLoads(_, _, _, _)
StartLoads(e, batch, env, i) ==
    IF i > Len(batch)
    THEN e
    ELSE LET n == batch[i]
             next == IF LRUHas(e.loadedChunks, n)
                     THEN [e EXCEPT !.loadedChunks = LRUGet(@, n)]
                     ELSE Fetch(e, "chunk", n, ChunkFetchOk(n, env))
         IN StartLoads(next, batch, env, i + 1)

\* FinishLoad that stores [] in the cache when the request has failed
FinishLoad_CacheFailure(e, n, env) ==
    IF ChunkFetchOk(n, env)
    THEN IndexIconsFromChunk([e EXCEPT !.loadedChunks = LRUSet(@, n, Dataset[n])],
                             Dataset[n], n)
    ELSE [e EXCEPT !.loadedChunks = LRUSet(@, n, <<>>)]

\* loadChunk after its awaits: the chunk is stored and indexed, or the error
\* is caught
FinishLoad(e, n, env) ==
    IF ChunkFetchOk(n, env)
    THEN IndexIconsFromChunk([e EXCEPT !.loadedChunks = LRUSet(@, n, Dataset[n])],
                             Dataset[n], n)
    ELSE e

RECURSIVE FinishLoads(_, _, _, _)
FinishLoads(e, answered, env, i) ==
    IF i > Len(answered)
    THEN e
    ELSE CHOOSE result \in {FinishLoads(next, answered, env, i + 1) :
                               next \in {FinishLoad(e, answered[i], env)}} : TRUE

\* the requested chunks of a batch in the order their responses arrive
AnswerOrder(e, batch, env) ==
    LET Requested(n) == ~LRUHas(e.loadedChunks, n)
    IN SelectSeq(env.order, LAMBDA n : n \in Range(batch) /\ Requested(n))
       \o SelectSeq(batch, LAMBDA n : Requested(n) /\ n \notin Range(env.order))

\* LoadBatch whose results are read from the cache once the batch is loaded
LoadBatch_ReadCache(e, batch, env) ==
    LET after == FinishLoads(StartLoads(e, batch, env, 1), AnswerOrder(e, batch, env), env, 1)
    IN [e |-> after,
        chunks |-> [i \in 1..Len(batch) |->
                      IF LRUHas(after.loadedChunks, batch[i])
                      THEN MapGet(after.loadedChunks.cache, batch[i])
                      ELSE <<>>]]

\* await Promise.all(batch.map(chunkNum => this.loadChunk(chunkNum)))
LoadBatch(e, batch, env) ==
    [e |-> FinishLoads(StartLoads(e, batch, env, 1), AnswerOrder(e, batch, env), env, 1),
     chunks |-> [i \in 1..Len(batch) |->
                   IF LRUHas(e.loadedChunks, batch[i])
                   THEN MapGet(e.loadedChunks.cache, batch[i])
                   ELSE IF ChunkFetchOk(batch[i], env) THEN Dataset[batch[i]] ELSE <<>>]]

\* what loadChunk resolves to: the only chunk of a batch of one
OneChunk(loaded) == [e |-> loaded.e, chunk |-> loaded.chunks[1]]

\* await this.loadChunk(chunkNumber)
LoadChunk(e, chunkNumber, env) == OneChunk(LoadBatch(e, <<chunkNumber>>, env))

\* chunk.find(icon => icon.id === iconId), as a sequence of zero or one record
Find(chunk, iconId) ==
    LET i == IndexOf([j \in 1..Len(chunk) |-> chunk[j].id], iconId)
    IN IF i > 0 THEN <<chunk[i]>> ELSE <<>>

-----------------------------------------------------------------------------
(* loadChunksIndex and loadCategoryChunks *)

\* const maxRetries = 3
MaxRetries == 3

\* LoadChunksIndex that requests chunks-index.json a second time before it
\* asks the API
LoadChunksIndex_Retrying(e, env) ==
    IF e.chunksIndex.loaded
    THEN [e |-> e, ok |-> TRUE]
    ELSE IF env.index = "primary"
    THEN [e |-> [Fetch(e, "chunks-index", 0, TRUE) EXCEPT !.chunksIndex = ChunksIndexFile],
          ok |-> TRUE]
    ELSE IF env.index = "fallback"
    THEN [e |-> [Fetch(Fetch(Fetch(e, "chunks-index", 0, FALSE), "chunks-index", 1, FALSE),
                       "chunks-info", 0, TRUE) EXCEPT !.chunksIndex = ChunksIndexFile],
          ok |-> TRUE]
    ELSE [e |-> Fetch(Fetch(Fetch(e, "chunks-index", 0, FALSE), "chunks-index", 1, FALSE),
                      "chunks-info", 0, FALSE),
          ok |-> FALSE]

\* LoadChunksIndex that throws when chunks-index.json is not answered, without
\* asking the API
LoadChunksIndex_NoFallback(e, env) ==
    IF e.chunksIndex.loaded
    THEN [e |-> e, ok |-> TRUE]
    ELSE IF env.index = "primary"
    THEN [e |-> [Fetch(e, "chunks-index", 0, TRUE) EXCEPT !.chunksIndex = ChunksIndexFile],
          ok |-> TRUE]
    ELSE [e |-> Fetch(e, "chunks-index", 0, FALSE), ok |-> FALSE]

\* env.index: "primary" when chunks-index.json answers, "fallback" when only
\* the API's /chunks-info answers, "none" when neither does
LoadChunksIndex(e, env) ==
    IF e.chunksIndex.loaded
    THEN [e |-> e, ok |-> TRUE]
    ELSE IF env.index = "primary"
    THEN [e |-> [Fetch(e, "chunks-index", 0, TRUE) EXCEPT !.chunksIndex = ChunksIndexFile],
          ok |-> TRUE]
    ELSE LET tried == Fetch(e, "chunks-index", 0, FALSE)
         IN IF env.index = "fallback"
            THEN [e |-> [Fetch(tried, "chunks-info", 0, TRUE) EXCEPT
                            !.chunksIndex = ChunksIndexFile],
                  ok |-> TRUE]
            ELSE [e |-> Fetch(tried, "chunks-info", 0, FALSE), ok |-> FALSE]

\* LoadCategoryChunks giving up after three requests (the first and two retries)
RECURSIVE LoadCategoryChunks_ThreeAttempts(_, _, _)
LoadCategoryChunks_ThreeAttempts(e, env, retryCount) ==
    IF e.categoryChunks.loaded
    THEN e
    ELSE IF retryCount >= env.catFailures
    THEN [Fetch(e, "category-chunks", retryCount, TRUE) EXCEPT
             !.categoryChunks = CategoryChunksFile]
    ELSE LET tried == Fetch(e, "category-chunks", retryCount, FALSE)
         IN IF retryCount < MaxRetries - 1
            THEN LoadCategoryChunks_ThreeAttempts(tried, env, retryCount + 1)
            ELSE [tried EXCEPT !.categoryChunks = [loaded |-> TRUE, map |-> NewMap]]

\* env.catFailures: the number of requests for category-chunks.json that fail
\* before one is answered
RECURSIVE LoadCategoryChunks(_, _, _)
LoadCategoryChunks(e, env, retryCount) ==
    IF e.categoryChunks.loaded
    THEN e
    ELSE IF retryCount >= env.catFailures
    THEN [Fetch(e, "category-chunks", retryCount, TRUE) EXCEPT
             !.categoryChunks = CategoryChunksFile]
    ELSE LET tried == Fetch(e, "category-chunks", retryCount, FALSE)
         IN IF retryCount < MaxRetries
            THEN LoadCategoryChunks(tried, env, retryCount + 1)
            ELSE [tried EXCEPT !.categoryChunks = [loaded |-> TRUE, map |-> NewMap]]

-----------------------------------------------------------------------------
(* searchIcons and getFullIconData *)

\* const BATCH_SIZE = 12 (searchIcons)
SearchBatchSize == 12

\* const batchSize = 15 (getIcons)
BrowseBatchSize == 15

\* the literal 50 of Math.ceil(limit / 50), scaled to the chunk files of the model
BrowseDivisor == 2

NoString == <<>>

All == <<"a", "l", "l">>

\* iconIds.forEach(id => matchedIconIds.add(id))
RECURSIVE AddAllToSet(_, _, _)
AddAllToSet(set, ids, i) ==
    IF i > Len(ids) THEN set ELSE AddAllToSet(SetAdd(set, ids[i]), ids, i + 1)

\* for (const [term, iconIds] of this.searchIndex.entries())
\*   if (term.includes(query)) ...
RECURSIVE MatchedIconIds(_, _, _, _)
MatchedIconIds(index, query, i, matched) ==
    IF i > MapSize(index)
    THEN matched
    ELSE MatchedIconIds(index, query, i + 1,
                        IF Includes(MapKeys(index)[i], query)
                        THEN AddAllToSet(matched, MapGet(index, MapKeys(index)[i]), 1)
                        ELSE matched)

\* the comparator given to sort
\* Compare without the name-match priority
Compare_LengthOnly(a, b, query) == Len(a.name) - Len(b.name)

Compare(a, b, query) ==
    LET aNameMatch == Includes(ToLowerCase(a.name), query)
        bNameMatch == Includes(ToLowerCase(b.name), query)
    IN IF aNameMatch /\ ~bNameMatch THEN -1
       ELSE IF ~aNameMatch /\ bNameMatch THEN 1
       ELSE Len(a.name) - Len(b.name)

\* Array.prototype.sort is stable: an element goes after every element that
\* came before it and does not compare greater
InsertSorted(sorted, x, query) ==
    LET later == {i \in 1..Len(sorted) : Compare(sorted[i], x, query) > 0}
        at == IF later = {} THEN Len(sorted) + 1
              ELSE CHOOSE i \in later : \A j \in later : i <= j
    IN SubSeq(sorted, 1, at - 1) \o <<x>> \o SubSeq(sorted, at, Len(sorted))

RECURSIVE SortBy(_, _, _, _)
SortBy(items, query, i, sorted) ==
    IF i > Len(items)
    THEN sorted
    ELSE SortBy(items, query, i + 1, InsertSorted(sorted, items[i], query))

\* Array.from(matchedIconIds).map(id => iconMetadata.get(id)).filter(Boolean)
\*      .sort(...)
SortedMatches(e, query) ==
    LET ids == MatchedIconIds(e.searchIndex, query, 1, <<>>)
        known == SelectSeq(ids, LAMBDA id : MapHas(e.iconMetadata, id))
        metadata == [i \in 1..Len(known) |-> MapGet(e.iconMetadata, known[i])]
    IN SortBy(metadata, query, 1, <<>>)

\* const chunkNumber = this.iconToChunk.get(id); if (chunkNumber) ...
KnownChunk(e, id) == MapHas(e.iconToChunk, id) /\ MapGet(e.iconToChunk, id) # 0

RECURSIVE RequiredChunks(_, _, _, _)
RequiredChunks(e, metadataResults, i, required) ==
    IF i > Len(metadataResults)
    THEN required
    ELSE RequiredChunks(e, metadataResults, i + 1,
                        IF KnownChunk(e, metadataResults[i].id)
                        THEN SetAdd(required, MapGet(e.iconToChunk, metadataResults[i].id))
                        ELSE required)

RECURSIVE LoadBatches(_, _, _, _, _, _)

\* the loop goes on after the batch at i has been awaited
NextBatches(batch, chunks, size, i, env, loaded) ==
    LoadBatches(batch.e, chunks, size, i + size, env, loaded \o batch.chunks)

\* for (let i = 0; i < chunks.length; i += size) await Promise.all(...)
LoadBatches(e, chunks, size, i, env, loaded) ==
    IF i >= Len(chunks)
    THEN [e |-> e, chunks |-> loaded]
    ELSE NextBatches(LoadBatch(e, SubSeq(chunks, i + 1, Min(i + size, Len(chunks))), env),
                     chunks, size, i, env, loaded)

\* for (const [chunkNum, chunkData] of this.loadedChunks.entries()) ...
FindInLoadedChunks(e, iconId) ==
    LET chunks == MapValues(e.loadedChunks.cache)
        holding == {i \in 1..Len(chunks) : Find(chunks[i], iconId) # <<>>}
    IN IF holding = {}
       THEN <<>>
       ELSE Find(chunks[CHOOSE i \in holding : \A j \in holding : i <= j], iconId)

\* if (chunk) { const fullIcon = chunk.find(icon => icon.id === iconId); ... }
FoundIn(loaded, iconId) == [e |-> loaded.e, icon |-> Find(loaded.chunk, iconId)]

\* GetFullIconData that never fetches: only the chunks now in the cache
GetFullIconData_CacheOnly(e, iconId, env) ==
    [e |-> e, icon |-> FindInLoadedChunks(e, iconId)]

\* the record found, as a sequence of zero (undefined) or one record
GetFullIconData(e, iconId, env) ==
    IF KnownChunk(e, iconId)
    THEN FoundIn(LoadChunk(e, MapGet(e.iconToChunk, iconId), env), iconId)
    ELSE IF FindInLoadedChunks(e, iconId) # <<>>
    THEN [e |-> e, icon |-> FindInLoadedChunks(e, iconId)]
    ELSE [e |-> e,
          icon |-> IF MapHas(e.iconMetadata, iconId)
                   THEN <<MapGet(e.iconMetadata, iconId)>> ELSE <<>>]

RECURSIVE FullResults(_, _, _, _, _)

\* if (fullIcon) results.push(fullIcon), and on to the next candidate
NextResults(full, metadataResults, i, env, results) ==
    FullResults(full.e, metadataResults, i + 1, env, results \o full.icon)

\* for (const metadata of metadataResults) { await getFullIconData ... }
FullResults(e, metadataResults, i, env, results) ==
    IF i > Len(metadataResults)
    THEN [e |-> e, result |-> results]
    ELSE NextResults(GetFullIconData(e, metadataResults[i].id, env),
                     metadataResults, i, env, results)

\* return results
SearchResult(full, sorted, metadataResults) ==
    [e |-> full.e, result |-> full.result, matched |-> sorted, candidates |-> metadataResults]

\* the chunks of the candidates are loaded in batches, then each candidate's
\* full record is looked up
SearchCandidates(e, sorted, metadataResults, env) ==
    SearchResult(FullResults(LoadBatches(e, RequiredChunks(e, metadataResults, 1, <<>>),
                                         SearchBatchSize, 0, env, <<>>).e,
                             metadataResults, 1, env, <<>>),
                 sorted, metadataResults)

\* .slice(0, limit)
SearchSorted(e, sorted, limit, env) == SearchCandidates(e, sorted, Slice(sorted, limit), env)

\* the result, with the matches found in the index (all of them: matched; the
\* ones kept after sorting and truncating: candidates)
SearchIcons(e, searchTerm, limit, env) ==
    IF Len(searchTerm) < 2
    THEN [e |-> e, result |-> <<>>, matched |-> <<>>, candidates |-> <<>>]
    ELSE SearchSorted(e, SortedMatches(e, Trim(ToLowerCase(searchTerm))), limit, env)

-----------------------------------------------------------------------------
(* getIcons and getIcon *)

\* CategoryGiven without the test for 'all'
CategoryGiven_All(category) == category # NoString

\* if (category && category !== 'all')
CategoryGiven(category) == category # NoString /\ category # All

\* icon.category.toLowerCase() === category.toLowerCase()
InCategory(icon, category) == ToLowerCase(icon.category) = ToLowerCase(category)

\* CeilDiv rounding down
CeilDiv_Floor(limit, divisor) == limit \div divisor

\* Math.ceil(limit / divisor) for limit >= 0
CeilDiv(limit, divisor) == (limit + divisor - 1) \div divisor

RECURSIVE Concat(_, _)
Concat(chunks, i) == IF i > Len(chunks) THEN <<>> ELSE chunks[i] \o Concat(chunks, i + 1)

\* the legacy search filter
LegacyMatch(icon, searchLower) ==
    \/ Includes(ToLowerCase(icon.name), searchLower)
    \/ Includes(ToLowerCase(icon.category), searchLower)
    \/ \E i \in 1..Len(icon.tags) : Includes(ToLowerCase(icon.tags[i]), searchLower)

\* SearchResultsOf without the category filter
SearchResultsOf_Unfiltered(found, params) ==
    [e |-> found.e, result |-> Slice(found.result, params.limit), outcome |-> "ok",
     matched |-> found.matched, candidates |-> found.candidates]

\* searchResults, filtered by category if one is given, .slice(0, limit)
SearchResultsOf(found, params) ==
    [e |-> found.e,
     result |-> Slice(IF CategoryGiven(params.category)
                      THEN SelectSeq(found.result,
                                     LAMBDA icon : InCategory(icon, params.category))
                      ELSE found.result,
                      params.limit),
     outcome |-> "ok",
     matched |-> found.matched, candidates |-> found.candidates]

\* GetIconsBySearch that loads the category map first when a category is given
GetIconsBySearch_WithCategories(e, params, env) ==
    SearchResultsOf(SearchIcons(IF CategoryGiven(params.category)
                                THEN LoadCategoryChunks(e, env, 0) ELSE e,
                                params.search, params.limit * 2, env), params)

\* the branch of getIcons taken when a search term is given and the index is
\* not empty
GetIconsBySearch(e, params, env) ==
    SearchResultsOf(SearchIcons(e, params.search, params.limit * 2, env), params)

\* 'constructor': the one lowercase name that every JavaScript object inherits
\* as a function (Object, whose length is 1)
Constructor == <<"c", "o", "n", "s", "t", "r", "u", "c", "t", "o", "r">>

\* categoryChunks[category.toLowerCase()] is not an array of the file but the
\* function inherited from Object.prototype
InheritedFunction(e, category) ==
    /\ ~MapHas(e.categoryChunks.map, ToLowerCase(category))
    /\ ToLowerCase(category) = Constructor

\* categoryChunks[category.toLowerCase()] || [], when it is an array
ChunksOfCategory(e, category) ==
    IF MapHas(e.categoryChunks.map, ToLowerCase(category))
    THEN MapGet(e.categoryChunks.map, ToLowerCase(category))
    ELSE <<>>

\* chunksToLoad = categoryChunks[category.toLowerCase()] || []
CategoryChunksToLoad(withMap, params) ==
    [e |-> withMap, chunks |-> ChunksOfCategory(withMap, params.category),
     array |-> ~InheritedFunction(withMap, params.category)]

\* chunksToLoad of a call whose chunk index is loaded
ChunksToLoad(e, params, env) ==
    IF CategoryGiven(params.category)
    THEN CategoryChunksToLoad(LoadCategoryChunks(e, env, 0), params)
    ELSE [e |-> e,
          chunks |-> [i \in 1..Min(CeilDiv(params.limit, BrowseDivisor),
                                   e.chunksIndex.total_chunks) |-> i],
          array |-> TRUE]

\* FilteredIcons that throws when a chunk request of the call has failed
FilteredIcons_AbortOnFailure(loaded, params) ==
    IF \E i \in 1..Len(loaded.e.log) :
          loaded.e.log[i].kind = "chunk" /\ ~loaded.e.log[i].ok
    THEN [e |-> loaded.e, result |-> <<>>, outcome |-> "error",
          matched |-> <<>>, candidates |-> <<>>]
    ELSE [e |-> loaded.e,
          result |-> Slice(IF CategoryGiven(params.category)
                           THEN SelectSeq(Concat(loaded.chunks, 1),
                                          LAMBDA icon : InCategory(icon, params.category))
                           ELSE Concat(loaded.chunks, 1),
                           params.limit),
          outcome |-> "ok", matched |-> <<>>, candidates |-> <<>>]

\* FilteredIcons without the final .slice(0, limit)
FilteredIcons_NoSlice(loaded, params) ==
    [e |-> loaded.e,
     result |-> SelectSeq(Concat(loaded.chunks, 1),
                          LAMBDA icon :
                             /\ CategoryGiven(params.category) => InCategory(icon, params.category)
                             /\ (params.search # NoString /\ MapSize(loaded.e.searchIndex) = 0)
                                   => LegacyMatch(icon, ToLowerCase(params.search))),
     outcome |-> "ok", matched |-> <<>>, candidates |-> <<>>]

\* the icons of the loaded chunks, filtered by category and by the legacy
\* search, .slice(0, limit)
FilteredIcons(loaded, params) ==
    LET allIcons == Concat(loaded.chunks, 1)
        inCategory == IF CategoryGiven(params.category)
                      THEN SelectSeq(allIcons,
                                     LAMBDA icon : InCategory(icon, params.category))
                      ELSE allIcons
        searched == IF params.search # NoString /\ MapSize(loaded.e.searchIndex) = 0
                    THEN SelectSeq(inCategory,
                                   LAMBDA icon : LegacyMatch(icon, ToLowerCase(params.search)))
                    ELSE inCategory
    IN [e |-> loaded.e, result |-> Slice(searched, params.limit), outcome |-> "ok",
        matched |-> <<>>, candidates |-> <<>>]

\* the chunks to load are loaded in batches; chunksToLoad.slice is not a
\* function (a TypeError, thrown on) when chunksToLoad is not an array
GetIconsFrom(todo, params, env) ==
    IF ~todo.array
    THEN [e |-> todo.e, result |-> <<>>, outcome |-> "error",
          matched |-> <<>>, candidates |-> <<>>]
    ELSE FilteredIcons(LoadBatches(todo.e, todo.chunks, BrowseBatchSize, 0, env, <<>>),
                       params)

\* await this.loadChunksIndex(): the call throws when the index cannot be loaded
GetIconsWithIndex(index, params, env) ==
    IF ~index.ok
    THEN [e |-> index.e, result |-> <<>>, outcome |-> "error",
          matched |-> <<>>, candidates |-> <<>>]
    ELSE GetIconsFrom(ChunksToLoad(index.e, params, env), params, env)

\* the branch of getIcons that loads chunks
GetIconsByChunks(e, params, env) == GetIconsWithIndex(LoadChunksIndex(e, env), params, env)

\* getIcons({limit, category, search}); NoString stands for an argument that
\* is not given
GetIcons(e, params, env) ==
    IF params.search # NoString /\ MapSize(e.searchIndex) > 0
    THEN GetIconsBySearch(e, params, env)
    ELSE GetIconsByChunks(e, params, env)

RECURSIVE ScanChunks(_, _, _, _)

\* const icon = chunk.find(...); if (icon) return icon; else the next chunk
ScanNext(loaded, iconId, i, env) ==
    IF Find(loaded.chunk, iconId) # <<>>
    THEN [e |-> loaded.e, result |-> Find(loaded.chunk, iconId), outcome |-> "ok"]
    ELSE ScanChunks(loaded.e, iconId, i + 1, env)

\* for (let i = 1; i <= total_chunks; i++) { chunk = await loadChunk(i); ... }
ScanChunks(e, iconId, i, env) ==
    IF i > e.chunksIndex.total_chunks
    THEN [e |-> e, result |-> <<>>, outcome |-> "error"]
    ELSE ScanNext(LoadChunk(e, i, env), iconId, i, env)

\* loadedChunks.values() in the order of the Map
FindInLoadedValues(e, iconId) == FindInLoadedChunks(e, iconId)

\* return chunk.find(icon => icon.id === iconId)
IconIn(loaded, iconId) ==
    [e |-> loaded.e, result |-> Find(loaded.chunk, iconId), outcome |-> "ok"]

\* ScanWithIndex with a scan that starts at the second chunk
ScanWithIndex_SkipFirst(index, iconId, env) ==
    IF ~index.ok
    THEN [e |-> index.e, result |-> <<>>, outcome |-> "error"]
    ELSE ScanChunks(index.e, iconId, 2, env)

\* await this.loadChunksIndex(), then the scan of every chunk
ScanWithIndex(index, iconId, env) ==
    IF ~index.ok
    THEN [e |-> index.e, result |-> <<>>, outcome |-> "error"]
    ELSE ScanChunks(index.e, iconId, 1, env)

\* getIcon(iconId): outcome "ok" with an empty result stands for a call that
\* resolves to undefined
GetIcon(e, iconId, env) ==
    IF KnownChunk(e, iconId)
    THEN IconIn(LoadChunk(e, MapGet(e.iconToChunk, iconId), env), iconId)
    ELSE IF FindInLoadedValues(e, iconId) # <<>>
    THEN [e |-> e, result |-> FindInLoadedValues(e, iconId), outcome |-> "ok"]
    ELSE ScanWithIndex(LoadChunksIndex(e, env), iconId, env)

-----------------------------------------------------------------------------
(* The engine's state machine: calls of getIcons, getIcon and searchIcons,  *)
(* one at a time.  A call runs to completion with the network behaving as  *)
(* env says; `last` then holds what the caller observes, until the caller  *)
(* takes the result (Return).                                              *)

Engine ==
    [chunksIndex |-> chunksIndex,
     categoryChunks |-> categoryChunks,
     loadedChunks |-> loadedChunks,
     searchIndex |-> searchIndex,
     iconMetadata |-> iconMetadata,
     iconToChunk |-> iconToChunk,
     log |-> <<>>]

SetEngine(e) ==
    /\ chunksIndex' = e.chunksIndex
    /\ categoryChunks' = e.categoryChunks
    /\ loadedChunks' = e.loadedChunks
    /\ searchIndex' = e.searchIndex
    /\ iconMetadata' = e.iconMetadata
    /\ iconToChunk' = e.iconToChunk

\* the limits passed: none, one, and the largest
Limits == {0, 1, MaxLimit}

\* the categories passed: not given, 'all', two categories of the files (one
\* in another case than the files have), and a name that is no category of
\* the files
CategoryArgs == {NoString, All, CatDev, <<"U", "i">>, Constructor}

\* the search terms passed: not given, a term in another case than the files
\* have, a term with a space around one character, and a one-character term
SearchArgs == {NoString, <<"D", "v">>, <<" ", "u">>, <<"h">>}

UnknownId == <<"n", "o">>

IconIdArgs == AllIds \cup {UnknownId}

ParamsArgs == [limit : Limits, category : CategoryArgs, search : SearchArgs]

\* the orders in which the members of a set can come
Orders(S) ==
    {order \in [1..Cardinality(S) -> S] :
        \A i, j \in 1..Cardinality(S) : order[i] = order[j] => i = j}

\* What the network can do during a call that may request the chunk files
\* mayFail, the files `together` among them at once: any of the files may
\* fail (for every request of the call), and the answers to the requests
\* made at once arrive in any order.
ChunkEnvs(mayFail, together) ==
    UNION {[fail : {fail}, order : Orders(together \ fail)] : fail \in SUBSET mayFail}

IndexEnvs(e, needed) ==
    IF needed /\ ~e.chunksIndex.loaded THEN {"primary", "fallback", "none"} ELSE {"primary"}

CategoryEnvs(e, needed) ==
    IF needed /\ ~e.categoryChunks.loaded THEN 0..(MaxRetries + 1) ELSE {0}

\* no chunk file is requested by a call that fails to load the chunk index,
\* or that falls back to an empty category map
Envs(e, mayFail, together, indexNeeded, categoryNeeded) ==
    UNION {UNION {{[fail |-> c.fail, order |-> c.order, index |-> i, catFailures |-> k] :
                      c \in IF i = "none" \/ k > MaxRetries
                            THEN ChunkEnvs({}, {})
                            ELSE ChunkEnvs(mayFail, together)} :
                  k \in IF i = "none" THEN {0} ELSE CategoryEnvs(e, categoryNeeded)} :
           i \in IndexEnvs(e, indexNeeded)}

Uncached(e, chunks) == {n \in chunks : ~LRUHas(e.loadedChunks, n)}

\* the chunk files among `chunks` that a call loading `chunks` may request:
\* the uncached ones, and the cached ones too when the cache cannot hold
\* them all (a cached one can then be evicted by the call and requested again)
MayEvict(e, chunks) ==
    IF Cardinality(LRUKeys(e.loadedChunks) \cup chunks) > e.loadedChunks.maxSize
    THEN chunks
    ELSE Uncached(e, chunks)

\* the chunk files a search may request: those of its candidates
SearchMayRequest(e, searchTerm, limit) ==
    IF Len(searchTerm) < 2
    THEN {}
    ELSE MayEvict(e, Range(RequiredChunks(e, Slice(SortedMatches(e, Trim(ToLowerCase(searchTerm))),
                                                   limit),
                                          1, <<>>)))

\* the chunk files getIcons may request
GetIconsMayRequest(e, params) ==
    IF params.search # NoString /\ MapSize(e.searchIndex) > 0
    THEN SearchMayRequest(e, params.search, params.limit * 2)
    ELSE IF CategoryGiven(params.category)
    THEN Uncached(e, Range(ChunksOfCategory(
                       IF e.categoryChunks.loaded THEN e
                       ELSE [e EXCEPT !.categoryChunks = CategoryChunksFile],
                       params.category)))
    ELSE Uncached(e, 1..Min(CeilDiv(params.limit, BrowseDivisor), NumChunks))

\* the chunk files getIcon may request (its scan can evict a cached chunk
\* before it comes to it)
GetIconMayRequest(e, iconId) ==
    IF KnownChunk(e, iconId)
    THEN Uncached(e, {MapGet(e.iconToChunk, iconId)})
    ELSE IF FindInLoadedChunks(e, iconId) # <<>>
    THEN {}
    ELSE MayEvict(e, ChunkNumbers)

\* the chunk files whose request failed during the call
Failed(log) == {log[i].n : i \in {j \in 1..Len(log) : log[j].kind = "chunk" /\ ~log[j].ok}}

\* the requests for category-chunks.json that failed during the call
FailedCategoryRequests(log) ==
    Cardinality({j \in 1..Len(log) : log[j].kind = "category-chunks" /\ ~log[j].ok})

\* the chunk files requested during the call
Requested(log) == {log[i].n : i \in {j \in 1..Len(log) : log[j].kind = "chunk"}}

IdleObservation ==
    [op |-> "idle", limit |-> 0, category |-> NoString, search |-> NoString,
     iconId |-> NoString, result |-> <<>>, outcome |-> "ok", log |-> <<>>,
     matched |-> <<>>, candidates |-> <<>>, indexKept |-> TRUE]

\* the search index, the metadata table and the locator are what they were
IndexKept(e, after) ==
    /\ after.searchIndex = e.searchIndex
    /\ after.iconMetadata = e.iconMetadata
    /\ after.iconToChunk = e.iconToChunk

Init ==
    /\ EngineFieldsInit
    /\ loadedChunks = NewLRUCache(CacheCapacity)
    /\ last = IdleObservation
    /\ hist = HistInit

CallGetIcons ==
    /\ last.op = "idle"
    /\ \E params \in ParamsArgs :
         \E mayRequest \in {GetIconsMayRequest(Engine, params)} :
            \E env \in Envs(Engine, mayRequest, Uncached(Engine, mayRequest),
                            params.search = NoString \/ MapSize(searchIndex) = 0,
                            /\ params.search = NoString \/ MapSize(searchIndex) = 0
                            /\ CategoryGiven(params.category)) :
               \E r \in {GetIcons(Engine, params, env)} :
                  /\ env.fail \subseteq Requested(r.e.log)
                  /\ SetEngine(r.e)
                  /\ last' = [op |-> "getIcons", limit |-> params.limit,
                              category |-> params.category, search |-> params.search,
                              iconId |-> NoString, result |-> r.result,
                              outcome |-> r.outcome, log |-> r.e.log,
                              matched |-> r.matched, candidates |-> r.candidates,
                              indexKept |-> IndexKept(Engine, r.e)]
    /\ UNCHANGED hist

CallSearchIcons ==
    /\ last.op = "idle"
    /\ \E searchTerm \in SearchArgs \ {NoString}, limit \in Limits :
         \E mayRequest \in {SearchMayRequest(Engine, searchTerm, limit)} :
            \E env \in Envs(Engine, mayRequest, Uncached(Engine, mayRequest), FALSE, FALSE) :
               \E r \in {SearchIcons(Engine, searchTerm, limit, env)} :
                  /\ env.fail \subseteq Requested(r.e.log)
                  /\ SetEngine(r.e)
                  /\ last' = [op |-> "searchIcons", limit |-> limit,
                              category |-> NoString, search |-> searchTerm,
                              iconId |-> NoString, result |-> r.result,
                              outcome |-> "ok", log |-> r.e.log,
                              matched |-> r.matched, candidates |-> r.candidates,
                              indexKept |-> IndexKept(Engine, r.e)]
    /\ UNCHANGED hist

CallGetIcon ==
    /\ last.op = "idle"
    /\ \E iconId \in IconIdArgs :
         \E env \in Envs(Engine, GetIconMayRequest(Engine, iconId), {},
                         ~KnownChunk(Engine, iconId)
                            /\ FindInLoadedChunks(Engine, iconId) = <<>>, FALSE) :
            \E r \in {GetIcon(Engine, iconId, env)} :
               /\ env.fail \subseteq Requested(r.e.log)
               /\ SetEngine(r.e)
               /\ last' = [op |-> "getIcon", limit |-> 0,
                           category |-> NoString, search |-> NoString,
                           iconId |-> iconId, result |-> r.result,
                           outcome |-> r.outcome, log |-> r.e.log,
                           matched |-> <<>>, candidates |-> <<>>,
                           indexKept |-> IndexKept(Engine, r.e)]
    /\ UNCHANGED hist

\* the caller takes the result
Return ==
    /\ last.op # "idle"
    /\ last' = IdleObservation
    /\ UNCHANGED <<engineVars, loadedChunks, hist>>

Next == CallGetIcons \/ CallSearchIcons \/ CallGetIcon \/ Return

Spec == Init /\ [][Next]_vars

-----------------------------------------------------------------------------
(* The cache on its own: any sequence of get/set/has/delete/clear.          *)
(* hist records, without looking at accessOrder, when each key was last    *)
(* read or written (stamp, as a rank), which keys a promoted key must outlive (owed)  *)
(* and the keys inserted so far when nothing but inserts of new keys has   *)
(* happened (inserted).                                                    *)

\* the keys that left the cache in the step from c to d
Gone(c, d) == LRUKeys(c) \ LRUKeys(d)

\* access times kept as ranks 1..n over the resident keys, 0 for the others
Ranked(stamp, resident) ==
    [k \in Keys |-> IF k \in resident
                    THEN Cardinality({j \in resident : stamp[j] <= stamp[k]})
                    ELSE 0]

\* key was just read or written and `resident` are the keys now in the cache
Touch(h, key, resident) ==
    [h EXCEPT !.ops = h.ops + 1,
              !.stamp = Ranked([h.stamp EXCEPT ![key] = MaxKey + 1], resident)]

\* nothing was read or written and `resident` are the keys now in the cache
Settle(h, resident) == [h EXCEPT !.ops = h.ops + 1, !.stamp = Ranked(h.stamp, resident)]

\* keys that left the cache or were accessed again are no longer owed to anyone
Discharge(owed, ks) == [k \in Keys |-> IF k \in ks THEN {} ELSE owed[k] \ ks]

\* the resident key whose latest get or set is the oldest
OldestKeys(c, h) ==
    {k \in LRUKeys(c) : \A j \in LRUKeys(c) : h.stamp[k] <= h.stamp[j]}

LInit ==
    /\ EngineFieldsInit
    /\ \E m \in 1..MaxCapacity : loadedChunks = NewLRUCache(m)
    /\ last = [op |-> "new", key |-> 0, value |-> Undefined, ret |-> Undefined,
               preKeys |-> {}, evicted |-> {}, oldest |-> {}, owedEvicted |-> {},
               promotedEvicted |-> FALSE]
    /\ hist = HistInit

LGet(key) ==
    LET c == loadedChunks
        d == LRUGet(c, key)
        hit == LRUHas(c, key)
    IN /\ hist.ops < MaxOps
       /\ loadedChunks' = d
       /\ last' = [op |-> "get", key |-> key, value |-> Undefined,
                   ret |-> LRUGetValue(c, key), preKeys |-> LRUKeys(c),
                   evicted |-> Gone(c, d), oldest |-> OldestKeys(c, hist),
                   owedEvicted |-> {}, promotedEvicted |-> FALSE]
       /\ hist' = IF hit
                  THEN [Touch(hist, key, LRUKeys(d)) EXCEPT
                          !.owed = [k \in Keys |-> IF k = key THEN LRUKeys(c) \ {key}
                                                   ELSE hist.owed[k] \ {key}],
                          !.promoted[key] = hist.promoted[key] \/ LRUKeys(c) # {key},
                          !.pure = FALSE, !.inserted = <<>>]
                  ELSE [hist EXCEPT !.ops = hist.ops + 1, !.pure = FALSE, !.inserted = <<>>]
       /\ UNCHANGED engineVars

LSet(key, value) ==
    LET c == loadedChunks
        d == LRUSet(c, key, value)
        present == LRUHas(c, key)
        gone == Gone(c, d)
        owed1 == Discharge(hist.owed, gone)
    IN /\ hist.ops < MaxOps
       /\ loadedChunks' = d
       /\ last' = [op |-> "set", key |-> key, value |-> value, ret |-> Undefined,
                   preKeys |-> LRUKeys(c), evicted |-> gone,
                   oldest |-> OldestKeys(c, hist),
                   owedEvicted |-> UNION {hist.owed[e] \ gone : e \in gone},
                   promotedEvicted |-> \E e \in gone : hist.promoted[e]]
       /\ hist' = [Touch(hist, key, LRUKeys(d)) EXCEPT
                     !.promoted = [k \in Keys |->
                                     IF k \in gone THEN FALSE
                                     ELSE IF k = key
                                          THEN present /\ (hist.promoted[k] \/ LRUKeys(c) # {key})
                                          ELSE hist.promoted[k]],
                     !.owed = IF present
                              THEN [k \in Keys |-> IF k = key THEN LRUKeys(c) \ {key}
                                                   ELSE owed1[k] \ {key}]
                              ELSE [k \in Keys |-> owed1[k] \ {key}],
                     !.pure = hist.pure /\ ~present,
                     !.inserted = IF hist.pure /\ ~present
                                  THEN Append(hist.inserted, key) ELSE <<>>]
       /\ UNCHANGED engineVars

LHas(key) ==
    /\ hist.ops < MaxOps
    /\ last' = [op |-> "has", key |-> key, value |-> Undefined,
                ret |-> LRUHas(loadedChunks, key), preKeys |-> LRUKeys(loadedChunks),
                evicted |-> {}, oldest |-> OldestKeys(loadedChunks, hist),
                owedEvicted |-> {}, promotedEvicted |-> FALSE]
    /\ hist' = [hist EXCEPT !.ops = hist.ops + 1, !.pure = FALSE, !.inserted = <<>>]
    /\ UNCHANGED <<loadedChunks, engineVars>>

LDelete(key) ==
    LET c == loadedChunks
        d == LRUDelete(c, key)
    IN /\ hist.ops < MaxOps
       /\ loadedChunks' = d
       /\ last' = [op |-> "delete", key |-> key, value |-> Undefined,
                   ret |-> LRUHas(c, key), preKeys |-> LRUKeys(c),
                   evicted |-> {}, oldest |-> OldestKeys(c, hist), owedEvicted |-> {},
                   promotedEvicted |-> FALSE]
       /\ hist' = [Settle(hist, LRUKeys(d)) EXCEPT
                               !.owed = Discharge(hist.owed, Gone(c, d)),
                               !.promoted = [k \in Keys |-> hist.promoted[k] /\ k \notin Gone(c, d)],
                               !.pure = FALSE, !.inserted = <<>>]
       /\ UNCHANGED engineVars

LClear ==
    LET c == loadedChunks
        d == LRUClear(c)
    IN /\ hist.ops < MaxOps
       /\ loadedChunks' = d
       /\ last' = [op |-> "clear", key |-> 0, value |-> Undefined, ret |-> Undefined,
                   preKeys |-> LRUKeys(c), evicted |-> {},
                   oldest |-> OldestKeys(c, hist), owedEvicted |-> {},
                   promotedEvicted |-> FALSE]
       /\ hist' = [Settle(hist, LRUKeys(d)) EXCEPT
                               !.owed = Discharge(hist.owed, Gone(c, d)),
                               !.promoted = [k \in Keys |-> hist.promoted[k] /\ k \notin Gone(c, d)],
                               !.pure = FALSE, !.inserted = <<>>]
       /\ UNCHANGED engineVars

LNext ==
    \/ \E key \in Keys : LGet(key)
    \/ \E key \in Keys, value \in LRUValues : LSet(key, value)
    \/ \E key \in Keys : LHas(key)
    \/ \E key \in Keys : LDelete(key)
    \/ LClear

SpecLRU == LInit /\ [][LNext]_vars

-----------------------------------------------------------------------------
(* Claims about the cache, checked under SpecLRU *)

\* C1: in every reachable state of the cache, whatever the sequence of
\* get/set/has/delete/clear and whatever the capacity C >= 1, the number of
\* resident entries is at most C.
C1_ResidentAtMostCapacity == LRUSize(loadedChunks) <= loadedChunks.maxSize

\* C1 witness: a set into a full cache has just evicted and the cache is full.
C1_Witness ==
    /\ last.op = "set"
    /\ last.evicted # {}
    /\ LRUSize(loadedChunks) = loadedChunks.maxSize

\* C2: a set of an absent key into a cache holding `capacity` entries evicts
\* exactly one entry, the resident key whose most recent get or set is the
\* oldest, and keeps every other resident key; after capacity+1 inserts of
\* distinct keys into an empty cache with no other access, the first-inserted
\* key is absent and the other `capacity` keys are present.
C2_EvictsLeastRecentlyUsed ==
    /\ (last.op = "set" /\ last.key \notin last.preKeys
            /\ Cardinality(last.preKeys) = loadedChunks.maxSize)
         => /\ Cardinality(last.evicted) = 1
            /\ last.evicted = last.oldest
            /\ LRUKeys(loadedChunks) = (last.preKeys \ last.evicted) \cup {last.key}
    /\ (hist.pure /\ Len(hist.inserted) = loadedChunks.maxSize + 1)
         => /\ Head(hist.inserted) \notin LRUKeys(loadedChunks)
            /\ Range(Tail(hist.inserted)) = LRUKeys(loadedChunks)
            /\ LRUSize(loadedChunks) = loadedChunks.maxSize

\* C2 witness: capacity+1 distinct keys were inserted into an empty cache of
\* capacity at least 2, the last insert evicting one key.
C2_Witness ==
    /\ hist.pure
    /\ loadedChunks.maxSize >= 2
    /\ Len(hist.inserted) = loadedChunks.maxSize + 1
    /\ last.op = "set"
    /\ Cardinality(last.evicted) = 1

\* C3: in every reachable state of the cache, for every key k and value v,
\* set(k, v) followed immediately by get(k) returns v, whether k is new,
\* already present, or its insertion evicts another key.
C3_SetThenGet ==
    \A key \in Keys, value \in LRUValues :
        LRUGetValue(LRUSet(loadedChunks, key, value), key) = value

\* C3 witness: a set has just replaced the value of a key that was present
\* with a different value, and a get of that key now returns the new value.
C3_Witness ==
    /\ last.op = "set"
    /\ last.key \in last.preKeys
    /\ LRUSize(loadedChunks) = loadedChunks.maxSize
    /\ \E key \in Keys : key # last.key /\ LRUHas(loadedChunks, key)
           /\ LRUGetValue(loadedChunks, key) # last.value
    /\ LRUGetValue(loadedChunks, last.key) = last.value

\* C4: a get that hits and a set of a present key make the key the most recently
\* used one: when an eviction removes a key, every key that was resident when
\* that key was last promoted has since left the cache or been accessed again;
\* and a set of a present key evicts nothing.
C4_PromotionProtects ==
    /\ (last.op = "set" /\ last.evicted # {}) => last.owedEvicted = {}
    /\ (last.op = "set" /\ last.key \in last.preKeys)
         => last.evicted = {} /\ LRUKeys(loadedChunks) = last.preKeys
    /\ (last.op = "get") => last.evicted = {} /\ LRUKeys(loadedChunks) = last.preKeys

\* C4 witness: a key that had been promoted by a get or a set while other keys
\* were resident is evicted after all of them were accessed again or left.
C4_Witness ==
    /\ last.op = "set"
    /\ Cardinality(last.evicted) = 1
    /\ Cardinality(last.preKeys) >= 2
    /\ last.promotedEvicted

-----------------------------------------------------------------------------
(* Properties of the engine (Spec).  `last` is what the caller of the call  *)
(* that has just completed observes; the engine variables are the state at  *)
(* the moment the call returns.                                            *)

\* C5: every record returned by getIcons, getIcon or searchIcons is, when the
\* call returns, mapped by the locator (iconToChunk) to the number of the chunk
\* file that contains that record.
C5_LocatorMapsReturned ==
    last.op \in {"getIcons", "getIcon", "searchIcons"} =>
        \A i \in 1..Len(last.result) :
            /\ MapHas(iconToChunk, last.result[i].id)
            /\ MapGet(iconToChunk, last.result[i].id) \in ChunkNumbers
            /\ last.result[i] \in Range(Dataset[MapGet(iconToChunk, last.result[i].id)])

\* C5 witness: getIcon found a record by its linear scan, which fetched more
\* than one chunk file on the way.
C5_Witness ==
    /\ last.op = "getIcon"
    /\ Len(last.result) = 1
    /\ Cardinality(Requested(last.log)) >= 2
    /\ MapGet(iconToChunk, last.result[1].id) = ChunkContaining(last.result[1].id)

\* C6: a search whose index holds k matches, k <= limit, and none of whose
\* chunk requests fails, returns exactly the k full records (with content) of
\* these matches, also when their chunks had been evicted or are more than the
\* cache holds.
C6_SearchComplete ==
    (/\ last.op = "searchIcons"
     /\ Len(last.matched) <= last.limit
     /\ Failed(last.log) = {})
    => /\ Len(last.result) = Len(last.matched)
       /\ \A i \in 1..Len(last.matched) :
             /\ last.result[i].id = last.matched[i].id
             /\ last.result[i] \in AllIcons

\* C6 witness: the matches of a search lie in more chunks than the cache
\* holds, chunk files were fetched during the search, none failed, and every
\* match came back.
C6_Witness ==
    /\ last.op = "searchIcons"
    /\ Len(last.matched) <= last.limit
    /\ Cardinality({ChunkContaining(last.matched[i].id) : i \in 1..Len(last.matched)})
          > loadedChunks.maxSize
    /\ Requested(last.log) # {}
    /\ Failed(last.log) = {}
    /\ Len(last.result) = Len(last.matched)

\* C7 (as amended): the matches of a search are ordered with the records whose
\* name contains the query first and by ascending name length within each
\* group; the result has at most `limit` entries, in that order; it is the
\* first `limit` entries of the ordering when no chunk request of the call
\* fails, and otherwise these entries without the ones whose chunk failed.
C7_SearchOrdered ==
    last.op = "searchIcons" =>
        LET query == Trim(ToLowerCase(last.search))
            NameMatch(r) == Includes(ToLowerCase(r.name), query)
            Ordered(records) ==
                \A i, j \in 1..Len(records) :
                    i < j => /\ NameMatch(records[j]) => NameMatch(records[i])
                             /\ NameMatch(records[i]) = NameMatch(records[j])
                                   => Len(records[i].name) <= Len(records[j].name)
            IdsOf(records) == [i \in 1..Len(records) |-> records[i].id]
            first == IdsOf(Slice(last.matched, last.limit))
        IN /\ Ordered(last.matched)
           /\ Ordered(last.result)
           /\ Len(last.result) <= last.limit
           /\ Failed(last.log) = {} => IdsOf(last.result) = first
           /\ IdsOf(last.result)
                 = SelectSeq(first, LAMBDA id : ChunkContaining(id) \notin Failed(last.log))

\* C7 as stated: the result is always the first `limit` entries of the ordering.
C7_AlwaysFirstEntries ==
    last.op = "searchIcons" =>
        /\ Len(last.result) = Len(Slice(last.matched, last.limit))
        /\ \A i \in 1..Len(last.result) : last.result[i].id = last.matched[i].id

\* C7 witness: a search with more matches than `limit`, some with the query in
\* their name and some without, returned `limit` records of different name
\* lengths.
C7_Witness ==
    /\ last.op = "searchIcons"
    /\ Len(last.matched) > last.limit
    /\ Len(last.result) = last.limit
    /\ \E i, j \in 1..Len(last.matched) :
          /\ Includes(ToLowerCase(last.matched[i].name), Trim(ToLowerCase(last.search)))
          /\ ~Includes(ToLowerCase(last.matched[j].name), Trim(ToLowerCase(last.search)))
    /\ \E i, j \in 1..Len(last.result) : Len(last.result[i].name) < Len(last.result[j].name)

\* C8 (as amended): a search leaves the search index, the metadata table and
\* the locator as they were, and, when none of its chunk requests failed, the
\* same search called again right after it, none of its chunk requests failing
\* either, returns the same records in the same order.
C8_SearchIdempotent ==
    last.op = "searchIcons" =>
        /\ last.indexKept
        /\ Failed(last.log) = {} =>
              \A env \in Envs(Engine, {},
                               Uncached(Engine, SearchMayRequest(Engine, last.search,
                                                                 last.limit)),
                               FALSE, FALSE) :
                 SearchIcons(Engine, last.search, last.limit, env).result = last.result

\* C8 as stated: the same search called again right after the first returns
\* the same records in the same order, whatever the network does.
C8_AlwaysSameResult ==
    last.op = "searchIcons" =>
        /\ last.indexKept
        /\ \A env \in Envs(Engine, SearchMayRequest(Engine, last.search, last.limit),
                           Uncached(Engine, SearchMayRequest(Engine, last.search,
                                                             last.limit)),
                           FALSE, FALSE) :
              SearchIcons(Engine, last.search, last.limit, env).result = last.result

\* C8 witness: a search that fetched (and so indexed again) a chunk file and
\* returned several records, none of its requests failing.
C8_Witness ==
    /\ last.op = "searchIcons"
    /\ Requested(last.log) # {}
    /\ Failed(last.log) = {}
    /\ Len(last.result) >= 2
    /\ last.indexKept

\* C9: every record returned by getIcons called with a category other than
\* 'all' has that category, compared ignoring case, on the search path as on
\* the chunk path.
C9_CategoryOnly ==
    (last.op = "getIcons" /\ last.category # NoString /\ last.category # All) =>
        \A i \in 1..Len(last.result) :
            ToLowerCase(last.result[i].category) = ToLowerCase(last.category)

\* C9 witness: getIcons with a search term and a category written in another
\* case than the files have returned records, and left out a candidate of its
\* search that has another category.
C9_Witness ==
    /\ last.op = "getIcons"
    /\ last.category = <<"U", "i">>
    /\ Len(last.result) > 0
    /\ \E i \in 1..Len(last.candidates) : last.candidates[i].category = CatDev
    /\ \E i \in 1..Len(last.result) : last.result[i].category = CatUi

\* C10: getIcons called with category 'all' does what it does without a
\* category: same records, same requests (none for the category map), same
\* cache, locator and index afterwards.
C10_AllIsNoCategory ==
    last.op = "idle" =>
        \A limit \in Limits, search \in SearchArgs :
            \A env \in Envs(Engine,
                            GetIconsMayRequest(Engine, [limit |-> limit, category |-> NoString,
                                                        search |-> search]),
                            Uncached(Engine,
                                     GetIconsMayRequest(Engine, [limit |-> limit,
                                                                 category |-> NoString,
                                                                 search |-> search])),
                            TRUE, TRUE) :
                \A all \in {GetIcons(Engine, [limit |-> limit, category |-> All,
                                              search |-> search], env)} :
                    /\ all = GetIcons(Engine, [limit |-> limit, category |-> NoString,
                                               search |-> search], env)
                    /\ \A i \in 1..Len(all.e.log) : all.e.log[i].kind # "category-chunks"

\* C10 witness: getIcons with category 'all' fetched chunk files and returned
\* records while the category map was not loaded.
C10_Witness ==
    /\ last.op = "getIcons"
    /\ last.category = All
    /\ Len(last.result) > 0
    /\ Requested(last.log) # {}
    /\ ~categoryChunks.loaded

\* C11: after a getIcons call that met no failure, the same call with a larger
\* limit (same category and search, chunk index unchanged), meeting no failure
\* either, returns a sequence that starts with the records of the first call,
\* in the same order.
C11_PrefixCompatible ==
    (last.op = "getIcons" /\ last.outcome = "ok" /\ Failed(last.log) = {}) =>
        \A limit \in {l \in Limits : l > last.limit} :
            \A env \in Envs(Engine, {},
                            Uncached(Engine,
                                     GetIconsMayRequest(Engine, [limit |-> limit,
                                                                 category |-> last.category,
                                                                 search |-> last.search])),
                            FALSE, FALSE) :
                \A second \in {GetIcons(Engine, [limit |-> limit, category |-> last.category,
                                                 search |-> last.search], env).result} :
                    /\ Len(last.result) <= Len(second)
                    /\ \A i \in 1..Len(last.result) : second[i] = last.result[i]

C13_ScanThenFastLookup ==
    /\ (/\ last.op = "getIcon"
        /\ last.iconId \in AllIds
        /\ ~last.indexKept
        /\ Failed(last.log) = {})
       => /\ last.outcome = "ok"
          /\ Len(last.result) = 1
          /\ last.result[1].id = last.iconId
          /\ last.result[1] \in AllIcons
          /\ \A i, j \in 1..Len(last.log) :
                (i < j /\ last.log[i].kind = "chunk" /\ last.log[j].kind = "chunk")
                   => last.log[i].n < last.log[j].n
          /\ ChunkContaining(last.iconId) \in Requested(last.log)
          /\ \A n \in Requested(last.log) : n <= ChunkContaining(last.iconId)
          /\ KnownChunk(Engine, last.iconId)
          /\ MapGet(iconToChunk, last.iconId) = ChunkContaining(last.iconId)
    /\ \A iconId \in AllIds :
          KnownChunk(Engine, iconId) =>
             \A env \in Envs(Engine, Uncached(Engine, {ChunkContaining(iconId)}), {},
                             FALSE, FALSE) :
                \A r \in {GetIcon(Engine, iconId, env)} :
                   /\ Len(r.e.log) <= 1
                   /\ \A i \in 1..Len(r.e.log) :
                         r.e.log[i].kind = "chunk" /\ r.e.log[i].n = ChunkContaining(iconId)
                   /\ env.fail = {} => r.result = <<CHOOSE icon \in AllIcons : icon.id = iconId>>

\* C13 witness: getIcon found by its scan a record of the last chunk file,
\* requesting several chunk files on the way, and added its id to the locator.
C13_Witness ==
    /\ last.op = "getIcon"
    /\ ~last.indexKept
    /\ Failed(last.log) = {}
    /\ last.iconId \in AllIds
    /\ ChunkContaining(last.iconId) = NumChunks
    /\ Cardinality(Requested(last.log)) >= 2
    /\ Len(last.result) = 1
    /\ KnownChunk(Engine, last.iconId)

\* C14: a getIcon call either resolves to one record whose id is the requested
\* id, or fails; it never resolves to an absent value.
C14_RecordOrError ==
    last.op = "getIcon" =>
        \/ last.outcome = "error" /\ last.result = <<>>
        \/ /\ last.outcome = "ok"
           /\ Len(last.result) = 1
           /\ last.result[1].id = last.iconId

-----------------------------------------------------------------------------
(* loadChunk on its own, with every kind of answer to its request: the      *)
(* request is rejected, the body cannot be decoded as JSON, the body is     *)
(* JSON but no array, the body is the array of the file with one record     *)
(* that has no name, or the body is the array of the file.                  *)

\* a decoded body that is an object, not an array
NotAnArray == <<[object |-> TRUE]>>

\* the name of a record that has none
MissingName == <<Undefined>>

Bodies(n) ==
    {[kind |-> kind, at |-> 0] : kind \in {"rejected", "undecodable", "object", "array"}}
    \cup {[kind |-> "malformed", at |-> i] : i \in 1..Len(Dataset[n])}

\* the array of file n with no name in its record at `at`
MalformedChunk(n, at) == [Dataset[n] EXCEPT ![at].name = MissingName]

\* indexIconsFromChunk on a record without name: iconMetadata.set and
\* iconToChunk.set are done, then icon.name.toLowerCase() throws
IndexIconThrowing(e, icon, chunkNumber) ==
    [e EXCEPT !.iconMetadata = MapSet(@, icon.id, Metadata(icon)),
              !.iconToChunk = MapSet(@, icon.id, chunkNumber)]

\* loadChunk(n) whose request, if it makes one, is answered by body: the body
\* is stored in the cache before it is indexed, and whatever is thrown is
\* caught and [] returned
LoadChunkAnswered(e, n, body) ==
    IF LRUHas(e.loadedChunks, n) \/ body.kind \in {"rejected", "array"}
    THEN LoadChunk(e, n, [fail |-> IF body.kind = "array" THEN {} ELSE {n},
                          order |-> <<>>, index |-> "primary", catFailures |-> 0])
    ELSE IF body.kind = "undecodable"
    THEN [e |-> Fetch(e, "chunk", n, FALSE), chunk |-> <<>>]
    ELSE IF body.kind = "object"
    THEN [e |-> [Fetch(e, "chunk", n, TRUE) EXCEPT
                    !.loadedChunks = LRUSet(@, n, NotAnArray)],
          chunk |-> <<>>]
    ELSE [e |-> IndexIconThrowing(
                    IndexIconsFromChunk(
                        [Fetch(e, "chunk", n, TRUE) EXCEPT
                            !.loadedChunks = LRUSet(@, n, MalformedChunk(n, body.at))],
                        SubSeq(Dataset[n], 1, body.at - 1), n),
                    MalformedChunk(n, body.at)[body.at], n),
          chunk |-> <<>>]

LoadIdle ==
    [op |-> "idle", n |-> 0, kind |-> "array", wasCached |-> FALSE, chunk |-> <<>>,
     log |-> <<>>, indexKept |-> TRUE, cacheKept |-> TRUE]

LoadInit ==
    /\ EngineFieldsInit
    /\ loadedChunks = NewLRUCache(CacheCapacity)
    /\ last = LoadIdle
    /\ hist = HistInit

CallLoadChunk ==
    /\ last.op = "idle"
    /\ hist.ops < MaxLoads
    /\ \E n \in ChunkNumbers :
         \E body \in IF LRUHas(loadedChunks, n)
                     THEN {[kind |-> "array", at |-> 0]} ELSE Bodies(n) :
            \E r \in {LoadChunkAnswered(Engine, n, body)} :
               /\ SetEngine(r.e)
               /\ last' = [op |-> "loadChunk", n |-> n, kind |-> body.kind,
                           wasCached |-> LRUHas(loadedChunks, n), chunk |-> r.chunk,
                           log |-> r.e.log, indexKept |-> IndexKept(Engine, r.e),
                           cacheKept |-> r.e.loadedChunks = loadedChunks]
    /\ hist' = [hist EXCEPT !.ops = @ + 1]

ReturnLoad ==
    /\ last.op # "idle"
    /\ last' = LoadIdle
    /\ UNCHANGED <<engineVars, loadedChunks, hist>>

LoadNext == CallLoadChunk \/ ReturnLoad

SpecLoad == LoadInit /\ [][LoadNext]_vars

\* C15: after loadChunk(n), whatever its request was answered with, either
\* chunk n is in the cache and every record of it is in the metadata table, in
\* the locator and under some term of the search index, or chunk n is not in
\* the cache and the call left the cache, the metadata table, the locator and
\* the search index as they were.
C15_AllOrNothing ==
    last.op = "loadChunk" =>
        \/ /\ LRUHas(loadedChunks, last.n)
           /\ \/ MapGet(loadedChunks.cache, last.n) = NotAnArray
              \/ \A i \in 1..Len(MapGet(loadedChunks.cache, last.n)) :
                    \A id \in {MapGet(loadedChunks.cache, last.n)[i].id} :
                       /\ MapHas(iconMetadata, id)
                       /\ KnownChunk(Engine, id)
                       /\ \E term \in MapKeySet(searchIndex) :
                             id \in Range(MapGet(searchIndex, term))
        \/ /\ ~LRUHas(loadedChunks, last.n)
           /\ last.indexKept
           /\ last.cacheKept

-----------------------------------------------------------------------------
(* Calls that overlap.  A call of getIcons or searchIcons is followed from  *)
(* one await to the next: it runs without interruption from a response to   *)
(* the next request it must wait for (awaiting a chunk that is cached does   *)
(* not let another response in), and while it waits for responses the        *)
(* responses of other calls' chunk requests arrive.  Every request is        *)
(* answered on its own: one request for a chunk file may succeed and a later *)
(* request for the same file may fail.                                       *)

\* the operations started under SpecAsync
MaxAsyncOps == 4

\* a network on which every request succeeds
Answering == [fail |-> {}, order |-> <<>>, index |-> "primary", catFailures |-> 0]

\* a network on which the request for chunk n fails
NotAnswering(n) == [fail |-> {n}, order |-> <<>>, index |-> "primary", catFailures |-> 0]

\* no call in progress (okLoads: the chunks of the batch whose request
\* succeeded; lookupFailed: the candidates whose chunk was requested again by
\* getFullIconData without success)
AsyncIdle ==
    [op |-> "idle", pc |-> "idle", limit |-> 0, search |-> NoString,
     chunks |-> <<>>, fromCache |-> {}, pending |-> {}, okLoads |-> {},
     lookupFailed |-> {}, candidates |-> <<>>, i |-> 0, result |-> <<>>]

\* the position of a searchIcons call in its loop over the candidates
Resolving(e, i, results, pending) ==
    [e |-> e, i |-> i, result |-> results, pending |-> pending,
     pc |-> IF pending = {} THEN "done" ELSE "refetch"]

RECURSIVE ResolveFrom(_, _, _, _)

\* if (fullIcon) results.push(fullIcon), and on to the next candidate
ResolveNext(full, candidates, i, results) ==
    ResolveFrom(full.e, candidates, i + 1, results \o full.icon)

\* for (const metadata of metadataResults) { await getFullIconData ... }, up
\* to the first candidate whose chunk has to be requested
ResolveFrom(e, candidates, i, results) ==
    IF i > Len(candidates)
    THEN Resolving(e, i, results, {})
    ELSE IF /\ KnownChunk(e, candidates[i].id)
            /\ ~LRUHas(e.loadedChunks, MapGet(e.iconToChunk, candidates[i].id))
    THEN Resolving(e, i, results, {MapGet(e.iconToChunk, candidates[i].id)})
    ELSE ResolveNext(GetFullIconData(e, candidates[i].id, Answering), candidates, i, results)

\* the chunks of a batch that were read from the cache
ReadFromCache(e, chunks) == {n \in Range(chunks) : LRUHas(e.loadedChunks, n)}

\* BatchResults read from the cache after the batch has been awaited
BatchResults_FromCache(e, call) ==
    [j \in 1..Len(call.chunks) |->
        IF LRUHas(e.loadedChunks, call.chunks[j])
        THEN MapGet(e.loadedChunks.cache, call.chunks[j]) ELSE <<>>]

\* what the promises of the batch resolve to
BatchResults(e, call) ==
    [j \in 1..Len(call.chunks) |->
        IF call.chunks[j] \in call.fromCache \cup call.okLoads
        THEN Dataset[call.chunks[j]] ELSE <<>>]

\* the call after the await of its batch: getIcons returns the icons of the
\* batch results, searchIcons goes on to look up its candidates
AfterBatch(e, call) ==
    IF call.pending # {}
    THEN [e |-> e, call |-> call]
    ELSE IF call.op = "getIcons"
    THEN [e |-> e,
          call |-> [call EXCEPT !.pc = "done",
                       !.result = FilteredIcons([e |-> e, chunks |-> BatchResults(e, call)],
                                                [limit |-> call.limit, category |-> NoString,
                                                 search |-> NoString]).result]]
    ELSE \* searchIcons
         [e |-> ResolveFrom(e, call.candidates, 1, <<>>).e,
          call |-> [call EXCEPT !.pc = ResolveFrom(e, call.candidates, 1, <<>>).pc,
                       !.pending = ResolveFrom(e, call.candidates, 1, <<>>).pending,
                       !.i = ResolveFrom(e, call.candidates, 1, <<>>).i,
                       !.result = ResolveFrom(e, call.candidates, 1, <<>>).result]]

\* the call up to its first await that waits for a response
BatchStarted(e, op, limit, search, candidates, chunks) ==
    AfterBatch(StartLoads(e, chunks, Answering, 1),
               [op |-> op, pc |-> "batch", limit |-> limit, search |-> search,
                chunks |-> chunks, fromCache |-> ReadFromCache(e, chunks),
                pending |-> Range(chunks) \ ReadFromCache(e, chunks), okLoads |-> {},
                lookupFailed |-> {}, candidates |-> candidates, i |-> 0, result |-> <<>>])

AsyncInit ==
    /\ EngineFieldsInit
    /\ loadedChunks = NewLRUCache(CacheCapacity)
    /\ last = AsyncIdle
    /\ hist = HistInit

\* getIcons({limit}) is called; the chunk index answers
StartGetIcons ==
    /\ last.op = "idle"
    /\ hist.ops < MaxAsyncOps
    /\ \E limit \in Limits :
         \E withIndex \in {LoadChunksIndex(Engine, Answering).e} :
            \E todo \in {ChunksToLoad(withIndex, [limit |-> limit, category |-> NoString,
                                                  search |-> NoString], Answering)} :
               \E s \in {BatchStarted(todo.e, "getIcons", limit, NoString, <<>>, todo.chunks)} :
                  /\ SetEngine(s.e)
                  /\ last' = s.call
    /\ hist' = [hist EXCEPT !.ops = @ + 1]

\* searchIcons(searchTerm, limit) is called with a term of two characters or more
StartSearchIcons ==
    /\ last.op = "idle"
    /\ hist.ops < MaxAsyncOps
    /\ \E searchTerm \in {t \in SearchArgs : Len(t) >= 2}, limit \in Limits :
         \E candidates \in {Slice(SortedMatches(Engine, Trim(ToLowerCase(searchTerm))), limit)} :
            \E s \in {BatchStarted(Engine, "searchIcons", limit, searchTerm, candidates,
                                   RequiredChunks(Engine, candidates, 1, <<>>))} :
               /\ SetEngine(s.e)
               /\ last' = s.call
    /\ hist' = [hist EXCEPT !.ops = @ + 1]

\* a request of the batch is answered, or fails
CompleteBatchLoad ==
    /\ last.pc = "batch"
    /\ \E n \in last.pending, ok \in BOOLEAN :
         \E s \in {AfterBatch(FinishLoad(Engine, n, IF ok THEN Answering ELSE NotAnswering(n)),
                              [last EXCEPT !.pending = @ \ {n},
                                           !.okLoads = IF ok THEN @ \cup {n} ELSE @])} :
            /\ SetEngine(s.e)
            /\ last' = s.call
    /\ UNCHANGED hist

\* the request made by getFullIconData for a candidate's chunk is answered, or
\* fails; the call goes on with the next candidates
CompleteRefetch ==
    /\ last.pc = "refetch"
    /\ \E n \in last.pending, ok \in BOOLEAN :
         \E loaded \in {FinishLoad(Engine, n, IF ok THEN Answering ELSE NotAnswering(n))} :
            \E r \in {ResolveFrom(loaded, last.candidates, last.i + 1,
                                  last.result \o (IF ok
                                                  THEN Find(Dataset[n], last.candidates[last.i].id)
                                                  ELSE <<>>))} :
               /\ SetEngine(r.e)
               /\ last' = [last EXCEPT !.pc = r.pc, !.pending = r.pending, !.i = r.i,
                                       !.result = r.result,
                                       !.lookupFailed =
                                          IF ok THEN @
                                          ELSE @ \cup {last.candidates[last.i].id}]
    /\ UNCHANGED hist

\* a chunk request of another call is answered
OtherLoad ==
    /\ hist.ops < MaxAsyncOps
    /\ \E n \in ChunkNumbers : SetEngine(FinishLoad(Engine, n, Answering))
    /\ hist' = [hist EXCEPT !.ops = @ + 1]
    /\ UNCHANGED last

\* the caller takes the result
ReturnAsync ==
    /\ last.pc = "done"
    /\ last' = AsyncIdle
    /\ UNCHANGED <<engineVars, loadedChunks, hist>>

AsyncNext ==
    \/ StartGetIcons
    \/ StartSearchIcons
    \/ CompleteBatchLoad
    \/ CompleteRefetch
    \/ OtherLoad
    \/ ReturnAsync

SpecAsync == AsyncInit /\ [][AsyncNext]_vars

\* the icons of the chunks of the call that were read from the cache or loaded
IconsOfCall(call) ==
    Concat([j \in 1..Len(call.chunks) |->
               IF call.chunks[j] \in call.fromCache \cup call.okLoads
               THEN Dataset[call.chunks[j]] ELSE <<>>], 1)

\* C18 (as stated): when getIcons or searchIcons returns, every chunk request
\* of the call has been answered and the locator and the metadata hold every
\* record of the chunks the call loaded, and the result holds the records of
\* every chunk of the call that was loaded: for getIcons the icons of these
\* chunks up to the limit, for searchIcons every candidate that is in one of
\* these chunks
C18_JoinedAndComplete ==
    last.pc = "done" =>
       /\ last.pending = {}
       /\ \A n \in last.okLoads :
             \A j \in 1..Len(Dataset[n]) :
                /\ MapHas(iconToChunk, Dataset[n][j].id)
                /\ MapHas(iconMetadata, Dataset[n][j].id)
       /\ last.op = "getIcons" => last.result = Slice(IconsOfCall(last), last.limit)
       /\ last.op = "searchIcons" =>
             \A j \in 1..Len(last.candidates) :
                ChunkContaining(last.candidates[j].id) \in last.okLoads
                   => \E k \in 1..Len(last.result) :
                         last.result[k].id = last.candidates[j].id

\* C18 (amended): when getIcons or searchIcons returns, every chunk request of
\* the call has been answered and the locator and the metadata hold every
\* record of the chunks the call loaded; getIcons returns the icons of the
\* chunks it read from the cache or loaded, up to the limit; searchIcons
\* returns, in the order of the candidates, the full record of every candidate
\* except those whose chunk was no longer cached when the candidate was looked
\* up and whose new request failed
C18_JoinedAndResolved ==
    last.pc = "done" =>
       /\ last.pending = {}
       /\ \A n \in last.okLoads :
             \A j \in 1..Len(Dataset[n]) :
                /\ MapHas(iconToChunk, Dataset[n][j].id)
                /\ MapHas(iconMetadata, Dataset[n][j].id)
       /\ last.op = "getIcons" => last.result = Slice(IconsOfCall(last), last.limit)
       /\ last.op = "searchIcons" =>
             /\ [k \in 1..Len(last.result) |-> last.result[k].id]
                   = SelectSeq([j \in 1..Len(last.candidates) |-> last.candidates[j].id],
                               LAMBDA id : id \notin last.lookupFailed)
             /\ \A k \in 1..Len(last.result) : last.result[k] \in AllIcons

\* a search has returned without a candidate whose chunk it had loaded in its
\* batch
C18_Witness ==
    /\ last.pc = "done"
    /\ last.op = "searchIcons"
    /\ \E j \in 1..Len(last.candidates) :
          /\ ChunkContaining(last.candidates[j].id) \in last.okLoads
          /\ last.candidates[j].id \in last.lookupFailed

-----------------------------------------------------------------------------
(* loadChunksIndex called by callers whose calls overlap: a call that finds *)
(* no chunk index waits for chunks-index.json and, if that fails, for the   *)
(* API's /chunks-info; other calls begin and other answers arrive meanwhile *)

\* the callers of loadChunksIndex
NumCallers == 2

\* the calls of loadChunksIndex made under SpecIndex
MaxIndexCalls == 4

Callers == 1..NumCallers

\* LoadsIndex of a call that requests the file whatever is stored
LoadsIndex_Always(index) == TRUE

\* if (this.chunksIndex) return this.chunksIndex; otherwise the file is requested
LoadsIndex(index) == ~index.loaded

\* pc: where each caller's call is; late: the call began when a chunk index
\* was stored; fetches: the requests the call has made; got: what the call
\* returned; stored: this.chunksIndex has been assigned; replaced: the
\* assignments made when a chunk index was already stored
IndexIdle ==
    [pc |-> [c \in Callers |-> "idle"],
     late |-> [c \in Callers |-> FALSE],
     fetches |-> [c \in Callers |-> 0],
     got |-> [c \in Callers |-> NullIndex],
     stored |-> FALSE,
     replaced |-> 0]

IndexInit ==
    /\ EngineFieldsInit
    /\ loadedChunks = NewLRUCache(CacheCapacity)
    /\ last = IndexIdle
    /\ hist = HistInit

\* this.chunksIndex = ...; return this.chunksIndex
StoreIndex(c) ==
    /\ chunksIndex' = ChunksIndexFile
    /\ last' = [last EXCEPT !.pc[c] = "returned", !.got[c] = ChunksIndexFile,
                            !.stored = TRUE,
                            !.replaced = IF chunksIndex.loaded THEN @ + 1 ELSE @]

\* loadChunksIndex() is called: the stored index is returned, or
\* chunks-index.json is requested
CallLoadChunksIndex ==
    /\ hist.ops < MaxIndexCalls
    /\ \E c \in Callers :
         /\ last.pc[c] = "idle"
         /\ last' = IF LoadsIndex(chunksIndex)
                    THEN [last EXCEPT !.pc[c] = "primary", !.late[c] = chunksIndex.loaded,
                                      !.fetches[c] = 1, !.got[c] = NullIndex]
                    ELSE [last EXCEPT !.pc[c] = "returned", !.late[c] = chunksIndex.loaded,
                                      !.fetches[c] = 0, !.got[c] = chunksIndex]
    /\ hist' = [hist EXCEPT !.ops = @ + 1]
    /\ UNCHANGED <<engineVars, loadedChunks>>

\* the request for chunks-index.json is answered, or fails and /chunks-info is
\* requested
PrimaryAnswered ==
    /\ \E c \in Callers, ok \in BOOLEAN :
         /\ last.pc[c] = "primary"
         /\ IF ok
            THEN StoreIndex(c)
            ELSE /\ last' = [last EXCEPT !.pc[c] = "fallback", !.fetches[c] = @ + 1]
                 /\ UNCHANGED chunksIndex
    /\ UNCHANGED <<categoryChunks, loadedChunks, searchIndex, iconMetadata, iconToChunk, hist>>

\* the request for /chunks-info is answered, or fails and the call throws
FallbackAnswered ==
    /\ \E c \in Callers, ok \in BOOLEAN :
         /\ last.pc[c] = "fallback"
         /\ IF ok
            THEN StoreIndex(c)
            ELSE /\ last' = [last EXCEPT !.pc[c] = "thrown"]
                 /\ UNCHANGED chunksIndex
    /\ UNCHANGED <<categoryChunks, loadedChunks, searchIndex, iconMetadata, iconToChunk, hist>>

\* the caller takes the index, or catches the error
TakeIndex ==
    /\ \E c \in Callers :
         /\ last.pc[c] \in {"returned", "thrown"}
         /\ last' = [last EXCEPT !.pc[c] = "idle", !.late[c] = FALSE,
                                 !.fetches[c] = 0, !.got[c] = NullIndex]
    /\ UNCHANGED <<engineVars, loadedChunks, hist>>

IndexNext == CallLoadChunksIndex \/ PrimaryAnswered \/ FallbackAnswered \/ TakeIndex

SpecIndex == IndexInit /\ [][IndexNext]_vars

\* C19 (as stated): once a call has stored the chunk index, a call that begins
\* later makes no request and returns the stored index, and the stored index
\* is never assigned again nor cleared
C19_NeverReplaced ==
    /\ \A c \in Callers :
          (last.late[c] /\ last.pc[c] # "idle")
             => /\ last.pc[c] = "returned"
                /\ last.fetches[c] = 0
                /\ last.got[c] = chunksIndex
    /\ last.stored => chunksIndex.loaded
    /\ last.replaced = 0

\* C19 (amended): once a call has stored the chunk index, a call that begins
\* later makes no request and returns the stored index, and the stored index
\* is never cleared; it is assigned again only by the calls that were waiting
\* for an answer when it was stored
C19_Idempotent ==
    /\ \A c \in Callers :
          (last.late[c] /\ last.pc[c] # "idle")
             => /\ last.pc[c] = "returned"
                /\ last.fetches[c] = 0
                /\ last.got[c] = chunksIndex
    /\ last.stored => chunksIndex.loaded
    /\ last.replaced < NumCallers
    /\ \A c \in Callers : last.pc[c] \in {"primary", "fallback"} => ~last.late[c]

\* a call that began after the index was stored has returned it, and a call
\* that was waiting when it was stored has assigned it again
C19_Witness ==
    /\ \E c \in Callers : last.late[c] /\ last.pc[c] = "returned"
    /\ last.replaced > 0


-----------------------------------------------------------------------------
(* The chunk index that cannot be loaded *)

\* the requests of the call made to the API's /chunks-info
FallbackRequests(log) == {j \in 1..Len(log) : log[j].kind = "chunks-info"}

\* C20: a getIcons call that browses (no search through the index) while no
\* chunk index is stored first requests chunks-index.json; if that request
\* fails it asks /chunks-info exactly once; if both fail the call ends with an
\* error and no records, after these two requests only, the chunk index stays
\* unloaded (so that the next such call requests it again), and the cache, the
\* locator, the metadata and the search index are what they were
C20_IndexUnavailable ==
    [][(/\ last.op = "idle"
        /\ last'.op = "getIcons"
        /\ last'.search = NoString \/ MapSize(searchIndex) = 0
        /\ ~chunksIndex.loaded)
       => /\ Len(last'.log) >= 1
          /\ last'.log[1].kind = "chunks-index"
          /\ last'.log[1].ok => FallbackRequests(last'.log) = {}
          /\ ~last'.log[1].ok =>
                /\ FallbackRequests(last'.log) = {2}
                /\ ~last'.log[2].ok =>
                      /\ Len(last'.log) = 2
                      /\ last'.outcome = "error"
                      /\ last'.result = <<>>
                      /\ ~chunksIndex'.loaded
                      /\ UNCHANGED <<loadedChunks, iconToChunk, iconMetadata, searchIndex>>
                /\ last'.log[2].ok => chunksIndex'.loaded]_vars

\* a getIcons call has failed after chunks-index.json and /chunks-info both
\* failed, and the chunk index is still not loaded
C20_Witness ==
    /\ last.op = "getIcons"
    /\ last.outcome = "error"
    /\ Len(last.log) = 2
    /\ last.log[1].kind = "chunks-index" /\ ~last.log[1].ok
    /\ last.log[2].kind = "chunks-info" /\ ~last.log[2].ok
    /\ ~chunksIndex.loaded


-----------------------------------------------------------------------------
(* loadCategoryChunks followed from one await to the next, with every kind  *)
(* of answer to the request for category-chunks.json                        *)

\* the calls of loadCategoryChunks made under SpecCategory
MaxCategoryCalls == 2

\* const retryDelay = 1000 * (retryCount + 1)
BaseDelay == 1000

\* the answers to the request: fetch rejects, the status is not ok, the body
\* is not JSON, the body is null, the body is a number, the body is the file
CategoryAnswers == {"rejected", "status", "undecodable", "null", "number", "object"}

\* a JSON body that is a number: truthy, and not an object
NumberBody == [loaded |-> TRUE, map |-> [number |-> 5]]

\* this.categoryChunks = {}
EmptyCategories == [loaded |-> TRUE, map |-> NewMap]

\* this.categoryChunks after `this.categoryChunks = await response.json()`,
\* which the answers that throw earlier do not reach
AssignedBody(stored, answer) ==
    CASE answer = "object" -> CategoryChunksFile
      [] answer = "number" -> NumberBody
      [] answer = "null"   -> NullCategories
      [] OTHER             -> stored

\* pc: where the call is; retryCount: the argument of the running invocation;
\* requests: the requests made by the call; delays: the timers it has waited
\* for; answers: the answers it has received; value: what it resolved to
CategoryIdle ==
    [pc |-> "idle", retryCount |-> 0, requests |-> 0, delays |-> <<>>,
     answers |-> <<>>, value |-> NullCategories]

CategoryInit ==
    /\ EngineFieldsInit
    /\ loadedChunks = NewLRUCache(CacheCapacity)
    /\ last = CategoryIdle
    /\ hist = HistInit

\* loadCategoryChunks(retryCount) up to its first await
EnterLoadCategoryChunks(call, stored, retryCount) ==
    IF stored.loaded
    THEN [call EXCEPT !.pc = "resolved", !.value = stored]
    ELSE [call EXCEPT !.pc = "fetching", !.retryCount = retryCount, !.requests = @ + 1]

\* loadCategoryChunks() is called
CallLoadCategoryChunks ==
    /\ last.pc = "idle"
    /\ hist.ops < MaxCategoryCalls
    /\ last' = EnterLoadCategoryChunks(CategoryIdle, categoryChunks, 0)
    /\ hist' = [hist EXCEPT !.ops = @ + 1]
    /\ UNCHANGED <<engineVars, loadedChunks>>

\* the request is answered: the file is stored and returned, or the catch
\* block starts the timer of the retry, or stores the empty map
CategoryAnswered ==
    /\ last.pc = "fetching"
    /\ \E answer \in CategoryAnswers :
         IF answer = "object"
         THEN /\ categoryChunks' = CategoryChunksFile
              /\ last' = [last EXCEPT !.pc = "resolved", !.value = CategoryChunksFile,
                                      !.answers = Append(@, answer)]
         ELSE IF last.retryCount < MaxRetries
         THEN /\ categoryChunks' = AssignedBody(categoryChunks, answer)
              /\ last' = [last EXCEPT !.pc = "waiting",
                                      !.delays = Append(@, BaseDelay * (last.retryCount + 1)),
                                      !.answers = Append(@, answer)]
         ELSE /\ categoryChunks' = EmptyCategories
              /\ last' = [last EXCEPT !.pc = "resolved", !.value = EmptyCategories,
                                      !.answers = Append(@, answer)]
    /\ UNCHANGED <<chunksIndex, loadedChunks, searchIndex, iconMetadata, iconToChunk, hist>>

\* the timer fires: return this.loadCategoryChunks(retryCount + 1)
RetryLoadCategoryChunks ==
    /\ last.pc = "waiting"
    /\ last' = EnterLoadCategoryChunks(last, categoryChunks, last.retryCount + 1)
    /\ UNCHANGED <<engineVars, loadedChunks, hist>>

\* the caller takes the map
TakeCategories ==
    /\ last.pc = "resolved"
    /\ last' = CategoryIdle
    /\ UNCHANGED <<engineVars, loadedChunks, hist>>

CategoryNext ==
    \/ CallLoadCategoryChunks
    \/ CategoryAnswered
    \/ RetryLoadCategoryChunks
    \/ TakeCategories

SpecCategory == CategoryInit /\ [][CategoryNext]_vars

\* the answers of the call that did not deliver the category map
FailedAnswers(call) == {j \in 1..Len(call.answers) : call.answers[j] # "object"}

\* C21: a call of loadCategoryChunks makes at most 4 requests; before its k-th
\* retry it has waited k times the base delay; every failed answer but the
\* fourth is followed by a retry, which requests the file again; the call
\* stops at the first answer that delivers the map and resolves to it; after
\* four failed answers it resolves to the empty map
C21_RetriesThenEmptyMap ==
    /\ last.requests <= MaxRetries + 1
    /\ \A k \in 1..Len(last.delays) : last.delays[k] = BaseDelay * k
    /\ last.pc = "fetching" =>
          /\ last.requests = Len(last.answers) + 1
          /\ Len(last.delays) = Len(last.answers)
    /\ (last.pc = "resolved" /\ last.requests > 0) =>
          /\ last.requests = Len(last.answers)
          /\ FailedAnswers(last) \in {1..(last.requests - 1), 1..(MaxRetries + 1)}
          /\ FailedAnswers(last) = 1..(last.requests - 1)
                => /\ last.value = CategoryChunksFile
                   /\ Len(last.delays) = last.requests - 1
          /\ FailedAnswers(last) = 1..(MaxRetries + 1)
                => /\ last.value = EmptyCategories
                   /\ last.delays = <<BaseDelay, 2 * BaseDelay, 3 * BaseDelay>>

\* C21, for the calls no request of which was answered with a number: the
\* same retries, delays and results
C21_RetriesUnlessStored ==
    (\A j \in 1..Len(last.answers) : last.answers[j] # "number")
       => C21_RetriesThenEmptyMap

\* a call has resolved to the number it was answered with, after one request
\* and one delay
C21_Witness ==
    /\ last.pc = "resolved"
    /\ last.answers = <<"number">>
    /\ last.requests = 1
    /\ last.delays = <<BaseDelay>>
    /\ last.value = NumberBody
    /\ categoryChunks = NumberBody

-----------------------------------------------------------------------------
(* The size of what getIcons returns *)

\* C22: a getIcons call that returns, returns at most `limit` records, whether
\* it searched through the index, loaded the chunks of a category, or loaded
\* the first chunks
C22_AtMostLimit ==
    (last.op = "getIcons" /\ last.outcome = "ok") => Len(last.result) <= last.limit

\* a search through the index found more candidates than the limit and
\* getIcons returned `limit` records
C22_Witness ==
    /\ last.op = "getIcons"
    /\ last.outcome = "ok"
    /\ last.limit > 0
    /\ Len(last.candidates) > last.limit
    /\ Len(last.result) = last.limit


-----------------------------------------------------------------------------
(* The tables that only grow *)

\* every key of the map before is a key of the map after
KeysKept(before, after) == \A k \in MapKeySet(before) : MapHas(after, k)

\* C23: no step of the engine removes an id from the locator or from the
\* metadata table, removes a term from the search index, or removes an id
\* from the ids listed under a term
C23_OnlyGrow ==
    [][/\ KeysKept(iconToChunk, iconToChunk')
       /\ KeysKept(iconMetadata, iconMetadata')
       /\ KeysKept(searchIndex, searchIndex')
       /\ \A term \in MapKeySet(searchIndex) :
             Range(MapGet(searchIndex, term)) \subseteq Range(MapGet(searchIndex', term))]_vars

\* a call had a chunk request fail and evicted a chunk from the full cache,
\* with records of more chunks than the cache holds in the locator
C23_Witness ==
    /\ last.op \in {"getIcons", "searchIcons", "getIcon"}
    /\ Failed(last.log) # {}
    /\ LRUSize(loadedChunks) = CacheCapacity
    /\ Cardinality({MapGet(iconToChunk, id) : id \in MapKeySet(iconToChunk)}) > CacheCapacity
    /\ MapSize(searchIndex) > 0


-----------------------------------------------------------------------------
(* The legacy search filter *)

\* C24: a getIcons call made with a search term while the search index is
\* empty returns only records that have the term, in lower case, as a
\* substring of their name, their category or one of their tags, in lower case
C24_LegacyFilterApplied ==
    [][(/\ last.op = "idle"
        /\ last'.op = "getIcons"
        /\ last'.outcome = "ok"
        /\ last'.search # NoString
        /\ MapSize(searchIndex) = 0)
       => \A i \in 1..Len(last'.result) :
             LegacyMatch(last'.result[i], ToLowerCase(last'.search))]_vars


\* a getIcons call with a search term loaded the chunk index and a chunk (the
\* search index was empty: the call did not search through it) and returned a
\* record that does not have the term
C24_Witness ==
    /\ last.op = "getIcons"
    /\ last.outcome = "ok"
    /\ last.search # NoString
    /\ \E j \in 1..Len(last.log) : last.log[j].kind = "chunks-index"
    /\ \E i \in 1..Len(last.result) :
          ~LegacyMatch(last.result[i], ToLowerCase(last.search))


-----------------------------------------------------------------------------
(* Browsing files generated with any chunk size: the generator cuts the list *)
(* of records into chunks of chunk_size records and declares chunk_size and  *)
(* total_chunks in chunks-index.json; getIcons({limit}) is then called on a  *)
(* new engine, every request answered.                                       *)

\* the chunk sizes the files are generated with
MaxChunkSize == 3

\* the limits passed to getIcons under SpecBrowse
MaxBrowseLimit == 7

\* allIcons of the generator
GeneratedIcons == Concat(Dataset, 1)

\* allIcons.slice(i, i + chunkSize), for the chunk numbered n
GeneratedChunk(total, chunkSize, n) ==
    SubSeq(GeneratedIcons, (n - 1) * chunkSize + 1, Min(n * chunkSize, total))

\* chunks-index.json as the generator writes it
GeneratedIndex(total, chunkSize) ==
    [loaded |-> TRUE, total_icons |-> total, chunk_size |-> chunkSize,
     total_chunks |-> CeilDiv(total, chunkSize)]

\* the files generated, and no call made
BrowseIdle(total, chunkSize) ==
    [op |-> "idle", total |-> total, chunkSize |-> chunkSize,
     index |-> GeneratedIndex(total, chunkSize), limit |-> 0, chunks |-> <<>>,
     result |-> <<>>]

BrowseInit ==
    /\ EngineFieldsInit
    /\ loadedChunks = NewLRUCache(CacheCapacity)
    /\ hist = HistInit
    /\ \E total \in 0..Len(GeneratedIcons), chunkSize \in 1..MaxChunkSize :
          last = BrowseIdle(total, chunkSize)

\* the parameters of a call without category and without search
BrowseParams(limit) == [limit |-> limit, category |-> NoString, search |-> NoString]

\* getIcons({limit}) with the chunk index and every chunk answered
BrowseGetIcons ==
    /\ last.op = "idle"
    /\ \E limit \in 0..MaxBrowseLimit :
         \E todo \in {ChunksToLoad([chunksIndex |-> last.index], BrowseParams(limit),
                                   Answering)} :
            last' = [last EXCEPT
                       !.op = "getIcons", !.limit = limit, !.chunks = todo.chunks,
                       !.result =
                          FilteredIcons([e |-> todo.e,
                                         chunks |-> [j \in 1..Len(todo.chunks) |->
                                                       GeneratedChunk(last.total, last.chunkSize,
                                                                      todo.chunks[j])]],
                                        BrowseParams(limit)).result]
    /\ UNCHANGED <<engineVars, loadedChunks, hist>>

\* the caller takes the result
BrowseReturn ==
    /\ last.op = "getIcons"
    /\ last' = BrowseIdle(last.total, last.chunkSize)
    /\ UNCHANGED <<engineVars, loadedChunks, hist>>

BrowseNext == BrowseGetIcons \/ BrowseReturn

SpecBrowse == BrowseInit /\ [][BrowseNext]_vars

\* the first n records of the files
FirstRecords(call, n) == SubSeq(GeneratedIcons, 1, Min(n, call.total))

-----------------------------------------------------------------------------
(* Retries of the chunk index *)

\* the requests of the call for chunks-index.json
IndexRequests(log) == {j \in 1..Len(log) : log[j].kind = "chunks-index"}

-----------------------------------------------------------------------------
(* The batches of chunk requests of one call.  Only the scheduling is        *)
(* followed: which requests for chunk files are in flight, from the moment   *)
(* loadChunk calls fetch to the moment the request is answered or fails.     *)

\* the chunks to load beyond one full batch
MaxExtraChunks == 1

\* the two loops: getIcons (batchSize 15, a timer between batches) and the
\* pre-load of searchIcons (BATCH_SIZE 12, no timer)
BatchLoops ==
    {[op |-> "getIcons", size |-> BrowseBatchSize, timer |-> TRUE],
     [op |-> "searchIcons", size |-> SearchBatchSize, timer |-> FALSE]}

\* the lengths of chunksToLoad: none, one, a full batch, more than a batch
ChunkCounts(size) == {0, 1, size, size + MaxExtraChunks}

\* chunks.slice(i, i + size)
BatchAt(count, size, i) == {n \in 1..count : i < n /\ n <= i + size}

\* NextBatchReady that does not wait for the requests in flight
NextBatchReady_NoJoin(inflight) == TRUE

\* await Promise.all(batch.map(loadChunk)) has resolved
NextBatchReady(inflight) == inflight = {}

\* pc: where the loop is; count: the chunks to load, numbered 1..count;
\* cached: those already in the cache; i: the loop variable; inflight: the
\* requests made and not yet answered; answered: the requests answered
BatchIdle ==
    [op |-> "idle", pc |-> "idle", size |-> 0, timer |-> FALSE, count |-> 0,
     cached |-> {}, i |-> 0, inflight |-> {}, answered |-> {}]

BatchInit ==
    /\ EngineFieldsInit
    /\ loadedChunks = NewLRUCache(CacheCapacity)
    /\ last = BatchIdle
    /\ hist = HistInit

\* the loop at i: the batch is mapped through loadChunk, which requests the
\* chunks that are not cached; past the last chunk the loop ends
AtBatch(call, i) ==
    IF i >= call.count
    THEN [call EXCEPT !.pc = "returned", !.i = i]
    ELSE [call EXCEPT !.pc = "awaiting", !.i = i,
                      !.inflight = @ \cup (BatchAt(call.count, call.size, i) \ call.cached)]

\* the loop after a request has been answered: when Promise.all has resolved,
\* getIcons starts its timer if chunks remain, and the loops go on
AfterAnswer(call) ==
    IF ~NextBatchReady(call.inflight)
    THEN call
    ELSE IF call.timer /\ call.i + call.size < call.count
    THEN [call EXCEPT !.pc = "delay"]
    ELSE AtBatch(call, call.i + call.size)

\* the call reaches its loop over chunksToLoad (getIcons) or over the chunks
\* of its candidates (searchIcons)
StartBatches ==
    /\ last.pc = "idle"
    /\ \E loop \in BatchLoops :
         \E count \in ChunkCounts(loop.size), cached \in {{}, {1}, {2}} :
            /\ cached \subseteq 1..count
            /\ last' = AfterAnswer(AtBatch([BatchIdle EXCEPT !.op = loop.op, !.size = loop.size,
                                                             !.timer = loop.timer,
                                                             !.count = count, !.cached = cached],
                                           0))
    /\ UNCHANGED <<engineVars, loadedChunks, hist>>

\* a request for a chunk file is answered, or fails: loadChunk resolves
ChunkAnswered ==
    /\ last.pc = "awaiting"
    /\ \E n \in last.inflight :
         last' = AfterAnswer([last EXCEPT !.inflight = @ \ {n}, !.answered = @ \cup {n}])
    /\ UNCHANGED <<engineVars, loadedChunks, hist>>

\* setTimeout(resolve, 100) fires
DelayElapsed ==
    /\ last.pc = "delay"
    /\ last' = AtBatch(last, last.i + last.size)
    /\ UNCHANGED <<engineVars, loadedChunks, hist>>

\* the loop has ended
EndBatches ==
    /\ last.pc = "returned"
    /\ last' = BatchIdle
    /\ UNCHANGED <<engineVars, loadedChunks, hist>>

BatchNext == StartBatches \/ ChunkAnswered \/ DelayElapsed \/ EndBatches

SpecBatch == BatchInit /\ [][BatchNext]_vars

\* C27: at any time of a getIcons call at most 15 requests for chunk files
\* are in flight, and of a searchIcons pre-load at most 12; the requests in
\* flight are requests of the batch the loop is at, and every request of the
\* batches before it has been answered
C27_BatchesBounded ==
    /\ last.op = "getIcons" => Cardinality(last.inflight) <= 15
    /\ last.op = "searchIcons" => Cardinality(last.inflight) <= 12
    /\ last.inflight \subseteq BatchAt(last.count, last.size, last.i)
    /\ \A n \in 1..last.count :
          (n <= last.i /\ n \notin last.cached) => n \in last.answered

\* the second batch of a call is in flight, the first one answered whole
C27_Witness ==
    /\ last.pc = "awaiting"
    /\ last.i = last.size
    /\ last.inflight # {}
    /\ Cardinality(last.answered) = last.size


-----------------------------------------------------------------------------
(* The requests of buildPrecomputedIconMapping.  Only the scheduling is      *)
(* followed: which sample requests are in flight.                            *)

\* const BATCH_SIZE = 20 (buildPrecomputedIconMapping)
SampleBatchSize == 20

\* the chunks of the index beyond one full batch
MaxExtraSamples == 1

\* total_chunks of the chunk index: none, one, more than a batch
SampleTotals == {0, 1, SampleBatchSize + MaxExtraSamples}

\* Array.from({length: batchEnd - i}, (_, idx) => i + idx + 1)
SampleBatch(total, i) == {n \in 1..total : i < n /\ n <= Min(i + SampleBatchSize, total)}

\* pc: where the pass is; total: total_chunks; batches: the promises pushed
\* to samplingPromises, each the chunks of its batch; inflight: the sample
\* requests made and not yet answered
SamplingIdle ==
    [op |-> "idle", pc |-> "idle", total |-> 0, batches |-> <<>>, inflight |-> {}]

SamplingInit ==
    /\ EngineFieldsInit
    /\ loadedChunks = NewLRUCache(CacheCapacity)
    /\ last = SamplingIdle
    /\ hist = HistInit

RECURSIVE SamplingLoop(_, _)

\* for (let i = 0; i < total_chunks; i += BATCH_SIZE): every iteration calls
\* sampleChunkForMapping, which calls fetch, for each chunk of the batch, and
\* pushes the Promise.all of the batch without awaiting it
SamplingLoop(call, i) ==
    IF i >= call.total
    THEN [call EXCEPT !.pc = IF call.inflight = {} THEN "returned" ELSE "awaiting"]
    ELSE SamplingLoop([call EXCEPT !.batches = Append(@, SampleBatch(call.total, i)),
                                   !.inflight = @ \cup SampleBatch(call.total, i)],
                      i + SampleBatchSize)

\* buildPrecomputedIconMapping() is called; the chunk index is answered
StartSampling ==
    /\ last.pc = "idle"
    /\ \E total \in SampleTotals :
          last' = SamplingLoop([SamplingIdle EXCEPT !.op = "buildPrecomputedIconMapping",
                                                    !.total = total], 0)
    /\ UNCHANGED <<engineVars, loadedChunks, hist>>

\* a sample request is answered, or fails; await Promise.all(samplingPromises)
\* resolves with the last one
SampleAnswered ==
    /\ last.pc = "awaiting"
    /\ \E n \in last.inflight :
          last' = [last EXCEPT !.inflight = @ \ {n},
                               !.pc = IF last.inflight = {n} THEN "returned" ELSE @]
    /\ UNCHANGED <<engineVars, loadedChunks, hist>>

\* the pass has ended
EndSampling ==
    /\ last.pc = "returned"
    /\ last' = SamplingIdle
    /\ UNCHANGED <<engineVars, loadedChunks, hist>>

SamplingNext == StartSampling \/ SampleAnswered \/ EndSampling

SpecSampling == SamplingInit /\ [][SamplingNext]_vars

\* C28: while the pass runs, at most 20 sample requests are in flight, all of
\* one batch
C28_SamplesBounded ==
    /\ Cardinality(last.inflight) <= 20
    /\ \E i \in 0..last.total : last.inflight \subseteq SampleBatch(last.total, i)

\* the pass has more sample requests in flight than a batch holds
C28_Witness ==
    /\ last.op = "buildPrecomputedIconMapping"
    /\ Len(last.batches) > 1
    /\ Cardinality(last.inflight) > 20


-----------------------------------------------------------------------------
(* buildPrecomputedIconMapping on the chunk files, with every kind of answer *)
(* to a sample request, on an engine that other calls have used before       *)

\* the chunk loads of other calls made before the pass, and the passes
MaxSampleOps == 3

\* the answers to a sample request: fetch rejects, the body is not JSON, the
\* body is an object and not an array, the body is the array of the file, the
\* body is that array with null in place of the record at `at`
SampleBodies(n) ==
    {[kind |-> kind, at |-> 0] : kind \in {"rejected", "undecodable", "object", "array"}}
       \cup {[kind |-> "null", at |-> i] : i \in 1..Len(Dataset[n])}

RECURSIVE MapIcons(_, _, _, _, _)

\* icons.forEach(icon => this.iconToChunk.set(icon.id, chunkNumber)), for the
\* records from i up to `upto`
MapIcons(locator, icons, chunkNumber, i, upto) ==
    IF i > upto
    THEN locator
    ELSE MapIcons(MapSet(locator, icons[i].id, chunkNumber), icons, chunkNumber, i + 1, upto)

\* SampleChunkForMapping that loads the chunk as loadChunk does
SampleChunkForMapping_Caching(e, chunkNumber, body) ==
    IF body.kind = "array" THEN FinishLoad(e, chunkNumber, Answering) ELSE e

\* sampleChunkForMapping(chunkNumber) after its awaits: forEach maps the
\* records, and throws at a null one; every error is caught
SampleChunkForMapping(e, chunkNumber, body) ==
    CASE body.kind = "array" ->
            [e EXCEPT !.iconToChunk = MapIcons(@, Dataset[chunkNumber], chunkNumber, 1,
                                               Len(Dataset[chunkNumber]))]
      [] body.kind = "null" ->
            [e EXCEPT !.iconToChunk = MapIcons(@, Dataset[chunkNumber], chunkNumber, 1,
                                               body.at - 1)]
      [] OTHER -> e

\* pc: where the pass is; inflight: the sample requests not yet answered;
\* bodies: the answers received; pre: the engine when the pass was called;
\* mapped: this.isPrecomputedMappingLoaded
SampleIdle(mapped) ==
    [op |-> "idle", pc |-> "idle", inflight |-> {},
     bodies |-> [n \in ChunkNumbers |-> [kind |-> "none", at |-> 0]],
     pre |-> NewEngine, outcome |-> "ok", mapped |-> mapped]

SampleInit ==
    /\ EngineFieldsInit
    /\ loadedChunks = NewLRUCache(CacheCapacity)
    /\ last = SampleIdle(FALSE)
    /\ hist = HistInit

\* a chunk load of another call, before the pass
LoadBeforePass ==
    /\ last.pc = "idle"
    /\ hist.ops < MaxSampleOps
    /\ \E n \in ChunkNumbers : SetEngine(FinishLoad(Engine, n, Answering))
    /\ hist' = [hist EXCEPT !.ops = @ + 1]
    /\ UNCHANGED last

\* buildPrecomputedIconMapping() is called: it returns at once when the
\* mapping is built; else the chunk index is loaded, or the pass throws, and
\* every chunk is requested
StartPass ==
    /\ last.pc = "idle"
    /\ hist.ops < MaxSampleOps
    /\ \E source \in IndexEnvs(Engine, TRUE) :
         \E index \in {LoadChunksIndex(Engine, [Answering EXCEPT !.index = source])} :
            /\ chunksIndex' = IF last.mapped THEN chunksIndex ELSE index.e.chunksIndex
            /\ last' = IF last.mapped
                       THEN [last EXCEPT !.op = "buildPrecomputedIconMapping",
                                         !.pc = "returned", !.pre = Engine]
                       ELSE IF ~index.ok
                       THEN [last EXCEPT !.op = "buildPrecomputedIconMapping",
                                         !.pc = "returned", !.pre = Engine,
                                         !.outcome = "error"]
                       ELSE [last EXCEPT !.op = "buildPrecomputedIconMapping",
                                         !.pc = "awaiting", !.pre = Engine,
                                         !.inflight = 1..index.e.chunksIndex.total_chunks]
    /\ hist' = [hist EXCEPT !.ops = @ + 1]
    /\ UNCHANGED <<categoryChunks, loadedChunks, searchIndex, iconMetadata, iconToChunk>>

\* a sample request is answered; with the last one the pass sets
\* isPrecomputedMappingLoaded and returns
SampleResolved ==
    /\ last.pc = "awaiting"
    /\ \E n \in last.inflight :
         \E body \in SampleBodies(n) :
            /\ SetEngine(SampleChunkForMapping(Engine, n, body))
            /\ last' = [last EXCEPT !.inflight = @ \ {n}, !.bodies[n] = body,
                                    !.pc = IF last.inflight = {n} THEN "returned" ELSE @,
                                    !.mapped = last.inflight = {n}]
    /\ UNCHANGED hist

\* the caller takes the outcome
EndPass ==
    /\ last.pc = "returned"
    /\ last' = SampleIdle(last.mapped)
    /\ UNCHANGED <<engineVars, loadedChunks, hist>>

SampleNext == LoadBeforePass \/ StartPass \/ SampleResolved \/ EndPass

SpecSample == SampleInit /\ [][SampleNext]_vars

\* the locator maps the records of chunk n from `from` on as it did before
\* the pass
LocatorKept(n, from) ==
    \A j \in from..Len(Dataset[n]) :
       /\ MapHas(iconToChunk, Dataset[n][j].id) = MapHas(last.pre.iconToChunk, Dataset[n][j].id)
       /\ MapHas(iconToChunk, Dataset[n][j].id)
             => MapGet(iconToChunk, Dataset[n][j].id)
                   = MapGet(last.pre.iconToChunk, Dataset[n][j].id)

\* the locator maps the records of chunk n up to `upto` to n
LocatorMaps(n, upto) ==
    \A j \in 1..upto :
       /\ MapHas(iconToChunk, Dataset[n][j].id)
       /\ MapGet(iconToChunk, Dataset[n][j].id) = n

\* the pass has left the cache, the search index, the metadata table and the
\* category map as they were, and it fails only for want of a chunk index
PassFrame ==
    /\ loadedChunks = last.pre.loadedChunks
    /\ searchIndex = last.pre.searchIndex
    /\ iconMetadata = last.pre.iconMetadata
    /\ categoryChunks = last.pre.categoryChunks
    /\ last.outcome = "error" => (~chunksIndex.loaded /\ iconToChunk = last.pre.iconToChunk)
    /\ (last.pc = "returned" /\ last.outcome = "ok") => last.mapped

-----------------------------------------------------------------------------
(* The search path and the manifests *)

\* the requests of the call for the chunk index or for the category map
ManifestRequests(log) ==
    {j \in 1..Len(log) : log[j].kind \in {"chunks-index", "chunks-info", "category-chunks"}}

\* C30: a getIcons call made with a search term while the search index is not
\* empty requests neither chunks-index.json, nor /chunks-info, nor
\* category-chunks.json, whether a category is given or not, and leaves the
\* stored chunk index and the stored category map as they were
C30_SearchSkipsManifests ==
    [][(/\ last.op = "idle"
        /\ last'.op = "getIcons"
        /\ last'.search # NoString
        /\ MapSize(searchIndex) > 0)
       => /\ ManifestRequests(last'.log) = {}
          /\ UNCHANGED <<chunksIndex, categoryChunks>>]_vars

\* a getIcons call with a search term and a category has searched through the
\* index and returned records, and the category map is still not loaded
C30_Witness ==
    /\ last.op = "getIcons"
    /\ last.search # NoString
    /\ CategoryGiven(last.category)
    /\ last.candidates # <<>>
    /\ last.result # <<>>
    /\ ~categoryChunks.loaded
    /\ ManifestRequests(last.log) = {}

-----------------------------------------------------------------------------
(* Overlapping loadChunk calls.  A call that finds its chunk in the cache   *)
(* returns at once; a call that does not issues its own request, whatever  *)
(* requests are already in flight, and continues when its response         *)
(* arrives.  A caller that abandons its call leaves the request in flight. *)
(* `last.calls` holds the calls that issued a request, `hist` the tables as *)
(* they would be had each chunk been indexed by its first response only.   *)

\* number of loadChunk calls in one behaviour of the overlapping loads
MaxOverlapCalls == 3
\* capacity of the cache under the overlapping loads (the program passes 50;
\* scaled so that a chunk can be evicted between two responses for it)
OverlapCapacity == 1

\* the network answering the request of chunk n, with the file or with an error
AnswerOf(n, ok) ==
    [fail |-> IF ok THEN {} ELSE {n}, order |-> <<>>, index |-> "primary", catFailures |-> 0]

OverlapInit ==
    /\ EngineFieldsInit
    /\ loadedChunks = NewLRUCache(OverlapCapacity)
    /\ last = [calls |-> <<>>, started |-> 0]
    /\ hist = [searchIndex |-> NewMap, iconMetadata |-> NewMap, iconToChunk |-> NewMap,
               log |-> <<>>, indexed |-> {}]

\* loadChunk(n) up to its first await
OverlapLoadChunk ==
    /\ last.started < MaxOverlapCalls
    /\ \E n \in ChunkNumbers :
         IF LRUHas(loadedChunks, n)
         THEN /\ loadedChunks' = LRUGet(loadedChunks, n)
              /\ last' = [last EXCEPT !.started = @ + 1]
         ELSE /\ loadedChunks' = loadedChunks
              /\ last' = [last EXCEPT
                            !.started = @ + 1,
                            !.calls = Append(@, [n |-> n, state |-> "pending",
                                                 abandoned |-> FALSE,
                                                 overlaps |-> \E j \in 1..Len(last.calls) :
                                                                /\ last.calls[j].n = n
                                                                /\ last.calls[j].state = "pending"])]
    /\ UNCHANGED <<engineVars, hist>>

\* the caller of a pending call stops waiting for it
OverlapAbandon ==
    /\ \E i \in 1..Len(last.calls) :
         /\ last.calls[i].state = "pending"
         /\ ~last.calls[i].abandoned
         /\ last' = [last EXCEPT !.calls[i].abandoned = TRUE]
    /\ UNCHANGED <<engineVars, loadedChunks, hist>>

\* the response of a pending call arrives: loadChunk after its awaits
OverlapResponse ==
    \E i \in 1..Len(last.calls) :
       \E ok \in BOOLEAN :
          /\ last.calls[i].state = "pending"
          /\ \E r \in {FinishLoad(Engine, last.calls[i].n, AnswerOf(last.calls[i].n, ok))} :
                SetEngine(r)
          /\ last' = [last EXCEPT !.calls[i].state = IF ok THEN "loaded" ELSE "failed"]
          /\ hist' = IF ok /\ last.calls[i].n \notin hist.indexed
                     THEN [IndexIconsFromChunk(hist, Dataset[last.calls[i].n], last.calls[i].n)
                             EXCEPT !.indexed = @ \cup {last.calls[i].n}]
                     ELSE hist

OverlapNext == OverlapLoadChunk \/ OverlapAbandon \/ OverlapResponse

SpecOverlap == OverlapInit /\ [][OverlapNext]_vars

\* a sequence without repeated elements
NoRepeats(seq) == \A i, j \in 1..Len(seq) : i # j => seq[i] # seq[j]

\* C31: overlapping loadChunk calls of one uncached chunk each issue their own
\* request, and once their responses have arrived, in any order and whether
\* or not a caller has abandoned its call, the cache holds at most one entry
\* per chunk and the locator, the metadata table and the search index are
\* what the first response of each chunk alone produces.
C31_OverlapIdempotent ==
    /\ searchIndex = hist.searchIndex
    /\ iconMetadata = hist.iconMetadata
    /\ iconToChunk = hist.iconToChunk
    /\ NoRepeats(loadedChunks.accessOrder)
    /\ NoRepeats(MapKeys(loadedChunks.cache))
    /\ Range(loadedChunks.accessOrder) = LRUKeys(loadedChunks)
    /\ \A i \in 1..Len(last.calls) :
          last.calls[i].state = "loaded" => last.calls[i].n \in hist.indexed

\* two calls of one chunk were in flight together, one of them abandoned, and
\* both responses have arrived with the file
C31_Witness ==
    \E i, j \in 1..Len(last.calls) :
       /\ i < j
       /\ last.calls[i].n = last.calls[j].n
       /\ last.calls[j].overlaps
       /\ last.calls[i].state = "loaded"
       /\ last.calls[j].state = "loaded"
       /\ last.calls[i].abandoned
       /\ LRUHas(loadedChunks, last.calls[i].n)

-----------------------------------------------------------------------------
(* The search index against a reference search.  Chunks are indexed in any *)
(* order, a chunk possibly more than once, and the candidate ids of a query *)
(* are collected from the index as searchIcons collects them.              *)

\* longest query collected
MaxQueryLen == 3
\* number of chunks indexed in one behaviour
MaxTermsOps == 3

\* the derived terms of every record of the files
AllTerms == UNION {Range(SearchTerms(icon)) : icon \in AllIcons}

\* the queries collected: every part of 2 to MaxQueryLen characters of a
\* derived term, and two strings no derived term contains
Queries ==
    UNION {{SubSeq(t, i, i + k - 1) : i \in 1..(Len(t) - k + 1)} :
              t \in AllTerms, k \in 2..MaxQueryLen}
       \cup {<<"u", "h">>, <<"v", "d">>}

TermsIdle == [op |-> "idle", query |-> <<>>, ids |-> <<>>]

TermsInit ==
    /\ EngineFieldsInit
    /\ loadedChunks = NewLRUCache(CacheCapacity)
    /\ last = TermsIdle
    /\ hist = [indexed |-> <<>>]

\* this.indexIconsFromChunk(chunk, chunkNumber)
TermsIndexChunk ==
    /\ Len(hist.indexed) < MaxTermsOps
    /\ \E n \in ChunkNumbers :
         /\ \E r \in {IndexIconsFromChunk(Engine, Dataset[n], n)} : SetEngine(r)
         /\ hist' = [hist EXCEPT !.indexed = Append(@, n)]
    /\ last' = TermsIdle

\* the loop of searchIcons over this.searchIndex.entries()
TermsCollect ==
    /\ \E query \in Queries :
         last' = [op |-> "collect", query |-> query,
                  ids |-> MatchedIconIds(searchIndex, query, 1, <<>>)]
    /\ UNCHANGED <<engineVars, loadedChunks, hist>>

TermsNext == TermsIndexChunk \/ TermsCollect

SpecTerms == TermsInit /\ [][TermsNext]_vars

\* the records indexed so far
IndexedIcons == UNION {Range(Dataset[n]) : n \in Range(hist.indexed)}

\* the derived terms of a record that are indexed: those of two characters or more
LongTerms(icon) == {t \in Range(SearchTerms(icon)) : Len(t) >= 2}

\* C32: the ids collected for a query of two characters or more from the index
\* keys that contain it are exactly the ids of the indexed records with a
\* derived term of two characters or more that contains the query; and the id
\* of every indexed record is in the index entry of each such term and of each
\* of its prefixes of two characters or more.
C32_CandidatesAreSubstringMatches ==
    /\ last.op = "collect" =>
          /\ Range(last.ids) =
                {icon.id : icon \in {r \in IndexedIcons :
                                        \E t \in LongTerms(r) : Includes(t, last.query)}}
          /\ NoRepeats(last.ids)
    /\ \A icon \in IndexedIcons :
          \A t \in LongTerms(icon) :
             \A i \in 2..Len(t) :
                /\ MapHas(searchIndex, Substring0(t, i))
                /\ icon.id \in Range(MapGet(searchIndex, Substring0(t, i)))

\* the query is inside a term but starts none, some indexed records are
\* collected and some are not
C32_Witness ==
    /\ last.op = "collect"
    /\ Len(last.query) >= 2
    /\ ~ \E t \in AllTerms : Len(t) >= Len(last.query) /\ Substring0(t, Len(last.query)) = last.query
    /\ last.ids # <<>>
    /\ \E icon \in IndexedIcons : icon.id \notin Range(last.ids)
    /\ Len(hist.indexed) > Cardinality(Range(hist.indexed))

-----------------------------------------------------------------------------
(* Iteration over the cache.  entries(), values() and keys() are those of   *)
(* the value Map: they follow the order in which the resident keys were    *)
(* inserted.                                                               *)

\* Array.from(cache.keys())
LRUIterationKeys(c) == MapKeys(c.cache)

\* C33: after any sequence of get, set, delete and clear, iteration over the
\* cache yields exactly the resident keys, in the recency order that eviction
\* uses, the least recently used key first.
C33_IterationInRecencyOrder ==
    LRUIterationKeys(loadedChunks) = loadedChunks.accessOrder

\* a get has promoted the key that iteration yields first: the keys iterated
\* are the resident ones, and eviction would take another key than the first
C33_Witness ==
    /\ last.op = "get"
    /\ LRUHas(loadedChunks, last.key)
    /\ Range(LRUIterationKeys(loadedChunks)) = Range(loadedChunks.accessOrder)
    /\ Len(LRUIterationKeys(loadedChunks)) = Len(loadedChunks.accessOrder)
    /\ Head(LRUIterationKeys(loadedChunks)) = last.key
    /\ Head(loadedChunks.accessOrder) # last.key

-----------------------------------------------------------------------------
(* Overlapping loadCategoryChunks calls.  Each caller's call goes from      *)
(* await to await on its own: its request is answered, its retry timer      *)
(* fires, while the other caller's call is anywhere in its own course.      *)

\* the calls of loadCategoryChunks made under the overlapping calls
MaxOverlapCategoryCalls == 3

\* late: the call began after some call had resolved; afterQuiet: the call
\* began after some call had resolved with no other call under way
CategoryCallIdle ==
    [pc |-> "idle", retryCount |-> 0, requests |-> 0, value |-> NullCategories,
     late |-> FALSE, afterQuiet |-> FALSE]

\* fileStored: category-chunks.json has been stored by a call; oddBody: a
\* decoded body that is no object has been assigned; first: what the first
\* call to resolve resolved to; quiet: what the first call to resolve with no
\* other call under way resolved to
CategoriesIdle ==
    [calls |-> [c \in Callers |-> CategoryCallIdle],
     fileStored |-> FALSE,
     oddBody |-> FALSE,
     first |-> [set |-> FALSE, value |-> NullCategories],
     quiet |-> [set |-> FALSE, value |-> NullCategories]]

CategoriesInit ==
    /\ EngineFieldsInit
    /\ loadedChunks = NewLRUCache(CacheCapacity)
    /\ last = CategoriesIdle
    /\ hist = HistInit

UnderWay(call) == call.pc \in {"fetching", "waiting"}

\* the call of caller c resolves to value
ResolveCategories(l, c, value) ==
    [l EXCEPT !.calls[c].pc = "resolved",
              !.calls[c].value = value,
              !.first = IF @.set THEN @ ELSE [set |-> TRUE, value |-> value],
              !.quiet = IF @.set \/ \E d \in Callers \ {c} : UnderWay(l.calls[d])
                        THEN @ ELSE [set |-> TRUE, value |-> value]]

\* EnterCategories that requests the file whatever is stored
EnterCategories_AlwaysFetch(l, c, stored, retryCount) ==
    [l EXCEPT !.calls[c].pc = "fetching",
              !.calls[c].retryCount = retryCount,
              !.calls[c].requests = @ + 1]

\* loadCategoryChunks(retryCount) of caller c up to its first await
EnterCategories(l, c, stored, retryCount) ==
    IF stored.loaded
    THEN ResolveCategories(l, c, stored)
    ELSE [l EXCEPT !.calls[c].pc = "fetching",
                   !.calls[c].retryCount = retryCount,
                   !.calls[c].requests = @ + 1]

\* a caller calls loadCategoryChunks()
CategoriesCalled ==
    /\ hist.ops < MaxOverlapCategoryCalls
    /\ \E c \in Callers :
         /\ last.calls[c].pc = "idle"
         /\ last' = EnterCategories(
                       [last EXCEPT !.calls[c].late = last.first.set,
                                    !.calls[c].afterQuiet = last.quiet.set],
                       c, categoryChunks, 0)
    /\ hist' = [hist EXCEPT !.ops = @ + 1]
    /\ UNCHANGED <<engineVars, loadedChunks>>

\* the request of a call is answered
CategoriesAnswered ==
    /\ \E c \in Callers, answer \in CategoryAnswers :
         /\ last.calls[c].pc = "fetching"
         /\ IF answer = "object"
            THEN /\ categoryChunks' = CategoryChunksFile
                 /\ last' = [ResolveCategories(last, c, CategoryChunksFile)
                               EXCEPT !.fileStored = TRUE]
            ELSE IF last.calls[c].retryCount < MaxRetries
            THEN /\ categoryChunks' = AssignedBody(categoryChunks, answer)
                 /\ last' = [last EXCEPT !.calls[c].pc = "waiting",
                                         !.oddBody = @ \/ answer \in {"number", "null"}]
            ELSE /\ categoryChunks' = EmptyCategories
                 /\ last' = [ResolveCategories(last, c, EmptyCategories)
                               EXCEPT !.oddBody = @ \/ answer \in {"number", "null"}]
    /\ UNCHANGED <<chunksIndex, loadedChunks, searchIndex, iconMetadata, iconToChunk, hist>>

\* the retry timer of a call fires: return this.loadCategoryChunks(retryCount + 1)
CategoriesRetried ==
    /\ \E c \in Callers :
         /\ last.calls[c].pc = "waiting"
         /\ last' = EnterCategories(last, c, categoryChunks, last.calls[c].retryCount + 1)
    /\ UNCHANGED <<engineVars, loadedChunks, hist>>

\* a caller takes the map its call resolved to
CategoriesTaken ==
    /\ \E c \in Callers :
         /\ last.calls[c].pc = "resolved"
         /\ last' = [last EXCEPT !.calls[c] = CategoryCallIdle]
    /\ UNCHANGED <<engineVars, loadedChunks, hist>>

CategoriesNext ==
    \/ CategoriesCalled
    \/ CategoriesAnswered
    \/ CategoriesRetried
    \/ CategoriesTaken

SpecCategories == CategoriesInit /\ [][CategoriesNext]_vars

\* C34: once a call has stored category-chunks.json, and whatever another
\* call's last request is answered with afterwards, the stored category map
\* is the file's when no call is under way any more (no body other than an
\* object having been decoded).
C34_LoadedMapKept ==
    (/\ last.fileStored
     /\ ~last.oddBody
     /\ \A c \in Callers : ~UnderWay(last.calls[c]))
    => categoryChunks = CategoryChunksFile

\* a call resolved to the file's map, the other call's fourth request failed
\* afterwards, and the stored map is the empty one: a category of the files
\* has no chunks to load
C34_Witness ==
    /\ last.fileStored
    /\ ~last.oddBody
    /\ \E c \in Callers :
          /\ last.calls[c].pc = "resolved"
          /\ last.calls[c].value = CategoryChunksFile
    /\ \E c \in Callers :
          /\ last.calls[c].pc = "resolved"
          /\ last.calls[c].requests = MaxRetries + 1
          /\ last.calls[c].value = EmptyCategories
    /\ categoryChunks = EmptyCategories
    /\ ChunksOfCategory(Engine, CatDev) = <<>>
    /\ ChunksOfCategory([Engine EXCEPT !.categoryChunks = CategoryChunksFile], CatDev) # <<>>

-----------------------------------------------------------------------------
\* C35: in every state the stored category map is unset or an object mapping
\* (the file's map or the empty one), and a call resolves to an object
\* mapping: a decoded body that is no object is neither stored nor returned.
C35_StoredPassesValidation ==
    /\ categoryChunks \in {NullCategories, CategoryChunksFile, EmptyCategories}
    /\ last.pc = "resolved" => last.value \in {CategoryChunksFile, EmptyCategories}

\* a later call, which makes no request, returns the number an earlier
\* call's request was answered with
C35_Witness ==
    /\ last.pc = "resolved"
    /\ last.requests = 0
    /\ last.value = NumberBody
    /\ categoryChunks = NumberBody
    /\ hist.ops = 2

-----------------------------------------------------------------------------
\* getIcons({limit: MaxLimit, category}) on the engine as it is, every
\* request it makes answered with its file
GetIconsOfCategory(category) ==
    GetIcons(Engine, [limit |-> MaxLimit, category |-> category, search |-> NoString],
             AnswerOf(0, TRUE))

-----------------------------------------------------------------------------
(* Two engines given the same calls over a network on which every request  *)
(* succeeds: the engine of the variables, whose cache has a capacity of 1  *)
(* to MaxCapacity, and an engine kept in `hist` whose cache holds every    *)
(* chunk file and so never evicts.                                         *)

\* an engine whose cache has this capacity
EngineOfCapacity(maxSize) == [NewEngine EXCEPT !.loadedChunks = NewLRUCache(maxSize)]

\* every request succeeds; concurrent responses arrive in the order of their
\* requests, or in the reverse order
SucceedingEnvs ==
    {[fail |-> {}, order |-> order, index |-> "primary", catFailures |-> 0] :
        order \in {<<>>, [i \in 1..NumChunks |-> NumChunks + 1 - i]}}

\* the chunk files requested during a call
ChunkRequests(log) == SelectSeq(log, LAMBDA request : request.kind = "chunk")

CapacityIdle ==
    [op |-> "idle", result |-> <<>>, outcome |-> "ok", requests |-> 0,
     unbounded |-> [result |-> <<>>, outcome |-> "ok", requests |-> 0]]

CapacityInit ==
    /\ EngineFieldsInit
    /\ \E m \in 1..MaxCapacity : loadedChunks = NewLRUCache(m)
    /\ last = CapacityIdle
    /\ hist = EngineOfCapacity(NumChunks)

\* what the callers of the two engines observe
CapacityObserved(op, r, u) ==
    /\ SetEngine(r.e)
    /\ hist' = [u.e EXCEPT !.log = <<>>]
    /\ last' = [op |-> op, result |-> r.result, outcome |-> r.outcome,
                requests |-> Len(ChunkRequests(r.e.log)),
                unbounded |-> [result |-> u.result, outcome |-> u.outcome,
                               requests |-> Len(ChunkRequests(u.e.log))]]

CapacityGetIcons ==
    /\ last.op = "idle"
    /\ \E params \in ParamsArgs, env \in SucceedingEnvs :
          \E r \in {GetIcons(Engine, params, env)}, u \in {GetIcons(hist, params, env)} :
             CapacityObserved("getIcons", r, u)

CapacitySearchIcons ==
    /\ last.op = "idle"
    /\ \E searchTerm \in SearchArgs \ {NoString}, limit \in Limits, env \in SucceedingEnvs :
          \E r \in {SearchIcons(Engine, searchTerm, limit, env)},
             u \in {SearchIcons(hist, searchTerm, limit, env)} :
             CapacityObserved("searchIcons",
                              [e |-> r.e, result |-> r.result, outcome |-> "ok"],
                              [e |-> u.e, result |-> u.result, outcome |-> "ok"])

CapacityGetIcon ==
    /\ last.op = "idle"
    /\ \E iconId \in IconIdArgs, env \in SucceedingEnvs :
          \E r \in {GetIcon(Engine, iconId, env)}, u \in {GetIcon(hist, iconId, env)} :
             CapacityObserved("getIcon", r, u)

\* the callers take their results
CapacityReturn ==
    /\ last.op # "idle"
    /\ last' = CapacityIdle
    /\ UNCHANGED <<engineVars, loadedChunks, hist>>

CapacityNext == CapacityGetIcons \/ CapacitySearchIcons \/ CapacityGetIcon \/ CapacityReturn

SpecCapacity == CapacityInit /\ [][CapacityNext]_vars

\* C37: with every request succeeding, each getIcons, getIcon and searchIcons
\* call of a sequence returns on an engine of any capacity the records, in the
\* order, that it returns on an engine whose cache never evicts, and leaves
\* the same search index, metadata table, locator and manifests; the engines
\* differ in their caches and in the chunk requests they make.
C37_CapacityIndependent ==
    /\ last.result = last.unbounded.result
    /\ last.outcome = last.unbounded.outcome
    /\ searchIndex = hist.searchIndex
    /\ iconMetadata = hist.iconMetadata
    /\ iconToChunk = hist.iconToChunk
    /\ chunksIndex = hist.chunksIndex
    /\ categoryChunks = hist.categoryChunks
    /\ last.requests >= last.unbounded.requests

\* a call returned records on both engines, the engine with the bounded
\* cache having requested more chunk files than the other
C37_Witness ==
    /\ last.op \in {"searchIcons", "getIcons"}
    /\ Len(last.result) > 1
    /\ last.result = last.unbounded.result
    /\ last.requests > last.unbounded.requests
    /\ last.unbounded.requests = 0
    /\ LRUKeys(loadedChunks) # LRUKeys(hist.loadedChunks)

-----------------------------------------------------------------------------
(* The Home view.  `last` holds the component's state (selectedCategory,    *)
(* debouncedSearchTerm, icons, currentLimit, hasMore, loading, loadingMore) *)
(* and the getIcons calls in flight; the icons shown are recorded as the    *)
(* parameters of the call that delivered them.  Calls settle in any order. *)

\* limit: 100 of the loadIcons effect and the step of loadMoreIcons
HomePageSize == 100

\* the user's changes of category and search term, and the load-more
\* requests, in one behaviour
MaxHomeEvents == 3

HomeCategories == {All, CatDev, CatUi}

HomeSearchTerms == {NoString, <<"h", "u">>}

\* the list setIcons([]) shows
NoIcons == [call |-> 0, category |-> All, search |-> NoString, limit |-> 0]

\* the effect of [selectedCategory, debouncedSearchTerm]: setLoading(true),
\* setCurrentLimit(100), setHasMore(true), then iconAPI.getIcons(params)
LoadIconsEffect(home, category, search) ==
    [home EXCEPT !.selectedCategory = category,
                 !.debouncedSearchTerm = search,
                 !.loading = TRUE,
                 !.currentLimit = HomePageSize,
                 !.hasMore = TRUE,
                 !.calls = @ + 1,
                 !.inflight = @ \cup {[call |-> home.calls + 1, by |-> "loadIcons",
                                       category |-> category, search |-> search,
                                       limit |-> HomePageSize]}]

\* the component once mounted: the effect has run for 'all' and no search term
HomeInit ==
    /\ EngineFieldsInit
    /\ loadedChunks = NewLRUCache(CacheCapacity)
    /\ last = LoadIconsEffect(
                 [selectedCategory |-> All, debouncedSearchTerm |-> NoString,
                  icons |-> NoIcons, currentLimit |-> HomePageSize, hasMore |-> TRUE,
                  loading |-> TRUE, loadingMore |-> FALSE, error |-> FALSE,
                  calls |-> 0, inflight |-> {}, failed |-> FALSE],
                 All, NoString)
    /\ hist = HistInit

\* the user selects another category, or the debounced search term changes
HomeSelect ==
    /\ hist.ops < MaxHomeEvents
    /\ \E category \in HomeCategories, search \in HomeSearchTerms :
         /\ <<category, search>> # <<last.selectedCategory, last.debouncedSearchTerm>>
         /\ category = last.selectedCategory \/ search = last.debouncedSearchTerm
         /\ last' = LoadIconsEffect(last, category, search)
    /\ hist' = [hist EXCEPT !.ops = @ + 1]
    /\ UNCHANGED <<engineVars, loadedChunks>>

\* loadMoreIcons up to its await
HomeLoadMore ==
    /\ hist.ops < MaxHomeEvents
    /\ ~last.loadingMore
    /\ last.hasMore
    /\ last' = [last EXCEPT
                  !.loadingMore = TRUE,
                  !.calls = @ + 1,
                  !.inflight = @ \cup {[call |-> last.calls + 1, by |-> "loadMoreIcons",
                                        category |-> last.selectedCategory,
                                        search |-> last.debouncedSearchTerm,
                                        limit |-> last.currentLimit + HomePageSize]}]
    /\ hist' = [hist EXCEPT !.ops = @ + 1]
    /\ UNCHANGED <<engineVars, loadedChunks>>

\* setIcons(iconsData) of the call that settles
ShownBy(request) ==
    [call |-> request.call, category |-> request.category, search |-> request.search,
     limit |-> request.limit]

\* a getIcons call of loadIcons settles: with `full` records or fewer, or
\* with an error
HomeIconsLoaded ==
    /\ \E request \in last.inflight, ok \in BOOLEAN, full \in BOOLEAN :
         /\ request.by = "loadIcons"
         /\ last' = IF ok
                    THEN [last EXCEPT !.inflight = @ \ {request},
                                      !.icons = ShownBy(request),
                                      !.hasMore = IF full THEN @ ELSE FALSE,
                                      !.loading = FALSE]
                    ELSE [last EXCEPT !.inflight = @ \ {request},
                                      !.icons = NoIcons,
                                      !.error = TRUE,
                                      !.failed = TRUE,
                                      !.loading = FALSE]
    /\ UNCHANGED <<engineVars, loadedChunks, hist>>

\* a getIcons call of loadMoreIcons settles
HomeMoreLoaded ==
    /\ \E request \in last.inflight, ok \in BOOLEAN, full \in BOOLEAN :
         /\ request.by = "loadMoreIcons"
         /\ last' = IF ok
                    THEN [last EXCEPT !.inflight = @ \ {request},
                                      !.icons = ShownBy(request),
                                      !.currentLimit = request.limit,
                                      !.hasMore = IF full THEN @ ELSE FALSE,
                                      !.loadingMore = FALSE]
                    ELSE [last EXCEPT !.inflight = @ \ {request},
                                      !.failed = TRUE,
                                      !.loadingMore = FALSE]
    /\ UNCHANGED <<engineVars, loadedChunks, hist>>

HomeNext == HomeSelect \/ HomeLoadMore \/ HomeIconsLoaded \/ HomeMoreLoaded

SpecHome == HomeInit /\ [][HomeNext]_vars

\* C39: once every getIcons call of the Home view has settled (none with an
\* error), in whatever order, the icons shown and the current limit are those
\* of a call issued for the selected category and the debounced search term.
C39_LatestRequestShown ==
    (last.inflight = {} /\ ~last.failed)
    => /\ last.icons.category = last.selectedCategory
       /\ last.icons.search = last.debouncedSearchTerm
       /\ last.icons.limit = last.currentLimit

\* every call has settled without error; the icons shown are those of the
\* first call, issued for the category selected before, which settled after
\* the call issued for the selected category
C39_Witness ==
    /\ last.inflight = {}
    /\ ~last.failed
    /\ last.calls = 2
    /\ last.icons.call = 1
    /\ last.icons.category # last.selectedCategory
    /\ last.currentLimit = HomePageSize

-----------------------------------------------------------------------------
\* C40: after any sequence of get, set, has, delete and clear on a cache of
\* capacity 1 or more, the recency list holds every key of the value map
\* exactly once and no other key; a set that evicts removes exactly one key,
\* which was resident, and the cache is no larger than its capacity after it.
C40_StructuresAgree ==
    /\ loadedChunks.maxSize >= 1
    /\ NoRepeats(loadedChunks.accessOrder)
    /\ Range(loadedChunks.accessOrder) = MapKeySet(loadedChunks.cache)
    /\ Range(MapKeys(loadedChunks.cache)) = MapKeySet(loadedChunks.cache)
    /\ Len(loadedChunks.accessOrder) = LRUSize(loadedChunks)
    /\ (last.op = "set" /\ last.evicted # {})
          => /\ Cardinality(last.evicted) = 1
             /\ last.evicted \subseteq last.preKeys
             /\ LRUSize(loadedChunks) = Cardinality(last.preKeys)
             /\ LRUSize(loadedChunks) = loadedChunks.maxSize

\* a set has evicted a key of a full cache in a behaviour that has also
\* promoted and deleted keys
C40_Witness ==
    /\ last.op = "set"
    /\ last.evicted # {}
    /\ last.evicted \subseteq last.preKeys
    /\ ~hist.pure
    /\ hist.ops >= 4
    /\ Len(loadedChunks.accessOrder) = loadedChunks.maxSize

-----------------------------------------------------------------------------
(* The course of one engine call from await to await, for each of the five *)
(* calls, counting the requests it makes.  What the call would read in the *)
(* engine's tables is drawn when it starts: the chunk count of the         *)
(* manifest, whether the manifests are stored already, whether the chunks  *)
(* it loads are cached, how many chunks its category lists, how many       *)
(* records its search matches, where the record that getIcon scans for is. *)

\* the chunk counts of the manifest: none, one, more than a batch of getIcons
ManifestCounts == {0, 1, BrowseBatchSize + MaxExtraChunks}

\* the limits passed: none, one, and one that asks for every chunk
PageLimits == {0, 1, BrowseDivisor * (BrowseBatchSize + MaxExtraChunks)}

\* the numbers of records a search matches: none, one, more than a batch of
\* searchIcons, cut to the limit
MatchCounts(limit) == {Min(k, limit) : k \in {0, 1, SearchBatchSize + MaxExtraChunks}}

CallsIdle ==
    [op |-> "idle", pc |-> "idle", total |-> 0, limit |-> 0, path |-> "none",
     indexStored |-> FALSE, categoriesStored |-> FALSE, cached |-> FALSE,
     listed |-> 0, matches |-> 0, required |-> 0, foundAt |-> 0,
     retryCount |-> 0, size |-> 0, timer |-> FALSE, count |-> 0, i |-> 0, inflight |-> 0,
     j |-> 0, catFetches |-> 0, indexFetches |-> 0, chunkFetches |-> 0]

Resolved(call) == [call EXCEPT !.pc = "resolved", !.inflight = 0]

Rejected(call) == [call EXCEPT !.pc = "rejected", !.inflight = 0]

\* the for loop of getIcon at chunk i: past the last chunk the call throws;
\* a cached chunk is searched at once, another is requested
RECURSIVE ScanFrom(_, _)
ScanFrom(call, i) ==
    IF i > call.total
    THEN Rejected([call EXCEPT !.i = i])
    ELSE IF ~call.cached
    THEN [call EXCEPT !.pc = "scanning", !.i = i, !.inflight = 1, !.chunkFetches = @ + 1]
    ELSE IF i = call.foundAt
    THEN Resolved([call EXCEPT !.i = i])
    ELSE ScanFrom(call, i + 1)

\* the loop of searchIcons over metadataResults at result j: getFullIconData
\* loads the chunk of the result, from the cache or with a request
ResolveResultsFrom(call, j) ==
    IF j > call.matches \/ call.cached
    THEN Resolved([call EXCEPT !.j = call.matches + 1])
    ELSE [call EXCEPT !.pc = "resolving", !.j = j, !.inflight = 1, !.chunkFetches = @ + 1]

\* the loops over chunksToLoad (getIcons) and over the required chunks
\* (searchIcons) at i: the chunks of the batch that are not cached are
\* requested together; after the last batch getIcons returns and searchIcons
\* goes on to its results
RECURSIVE BatchesFrom(_, _)
BatchesFrom(call, i) ==
    IF i >= call.count
    THEN IF call.path = "search"
         THEN ResolveResultsFrom([call EXCEPT !.i = i], 1)
         ELSE Resolved([call EXCEPT !.i = i])
    ELSE IF ~call.cached
    THEN [call EXCEPT !.pc = "batch", !.i = i,
                      !.inflight = Cardinality(BatchAt(call.count, call.size, i)),
                      !.chunkFetches = @ + Cardinality(BatchAt(call.count, call.size, i))]
    ELSE IF call.timer /\ i + call.size < call.count
    THEN [call EXCEPT !.pc = "delay", !.i = i]
    ELSE BatchesFrom(call, i + call.size)

\* searchIcons(searchTerm, limit) once its candidates are sorted and cut
SearchFrom(call) ==
    BatchesFrom([call EXCEPT !.path = "search", !.size = SearchBatchSize, !.timer = FALSE,
                             !.count = call.required],
                0)

\* getIcons once it has its category map: chunksToLoad is the category's
\* list, or a function that has no slice
WithCategories(call) ==
    IF call.op = "loadCategoryChunks"
    THEN Resolved(call)
    ELSE IF call.path = "inherited"
    THEN Rejected(call)
    ELSE BatchesFrom([call EXCEPT !.size = BrowseBatchSize, !.timer = TRUE,
                                  !.count = Min(call.listed, call.total)], 0)

\* CategoriesFrom whose retries start their count again
CategoriesFrom_CountReset(call, stored, retryCount) ==
    IF stored
    THEN WithCategories(call)
    ELSE [call EXCEPT !.pc = "categories", !.retryCount = 0, !.inflight = 1,
                      !.catFetches = @ + 1]

\* loadCategoryChunks(retryCount) up to its await
CategoriesFrom(call, stored, retryCount) ==
    IF stored
    THEN WithCategories(call)
    ELSE [call EXCEPT !.pc = "categories", !.retryCount = retryCount, !.inflight = 1,
                      !.catFetches = @ + 1]

\* the call once this.chunksIndex is stored
WithIndex(call) ==
    CASE call.op = "getIcon" -> ScanFrom(call, 1)
      [] call.op = "buildPrecomputedIconMapping" ->
            IF call.total = 0
            THEN Resolved(call)
            ELSE [call EXCEPT !.pc = "sampling", !.inflight = call.total,
                              !.chunkFetches = @ + call.total]
      [] call.op = "getIcons" /\ call.path = "browse" ->
            BatchesFrom([call EXCEPT !.size = BrowseBatchSize, !.timer = TRUE,
                                     !.count = Min(CeilDiv(call.limit, BrowseDivisor),
                                                   call.total)], 0)
      [] OTHER -> CategoriesFrom(call, call.categoriesStored, 0)

\* loadChunksIndex() up to its await
IndexFrom(call) ==
    IF call.indexStored
    THEN WithIndex(call)
    ELSE [call EXCEPT !.pc = "index-primary", !.inflight = 1, !.indexFetches = @ + 1]

\* the call up to its first await
Started(call) ==
    CASE call.op = "loadCategoryChunks" -> CategoriesFrom(call, call.categoriesStored, 0)
      [] call.op = "searchIcons" -> SearchFrom(call)
      [] call.op = "getIcons" /\ call.path = "search" -> SearchFrom(call)
      [] call.op = "getIcon" /\ call.path = "locator" ->
            IF call.cached
            THEN Resolved(call)
            ELSE [call EXCEPT !.pc = "lookup", !.inflight = 1, !.chunkFetches = @ + 1]
      [] call.op = "getIcon" /\ call.path = "loaded" -> Resolved(call)
      [] call.op = "buildPrecomputedIconMapping" /\ call.path = "built" -> Resolved(call)
      [] OTHER -> IndexFrom(call)

\* the calls made and what they find in the engine
CallsMade ==
    {[CallsIdle EXCEPT !.op = "getIcons", !.path = "browse", !.total = total,
                       !.limit = limit, !.indexStored = stored, !.cached = cached] :
        total \in ManifestCounts, limit \in PageLimits, stored \in BOOLEAN,
        cached \in BOOLEAN}
    \cup
    {[CallsIdle EXCEPT !.op = "getIcons", !.path = path, !.total = total,
                       !.limit = 1, !.indexStored = stored, !.categoriesStored = stored,
                       !.cached = cached, !.listed = Min(listed, total)] :
        path \in {"category", "inherited"}, total \in ManifestCounts,
        listed \in ManifestCounts, stored \in BOOLEAN, cached \in BOOLEAN}
    \cup
    {[CallsIdle EXCEPT !.op = op, !.path = "search",
                       !.limit = limit, !.cached = cached,
                       !.matches = Min(matches, IF op = "getIcons" THEN 2 * limit ELSE limit),
                       !.required = IF known
                                    THEN Min(matches, IF op = "getIcons" THEN 2 * limit ELSE limit)
                                    ELSE 0] :
        op \in {"getIcons", "searchIcons"}, limit \in PageLimits,
        matches \in {0, 1, SearchBatchSize + MaxExtraChunks},
        known \in BOOLEAN, cached \in BOOLEAN}
    \cup
    {[CallsIdle EXCEPT !.op = "getIcon", !.path = path, !.total = total,
                       !.indexStored = stored, !.cached = cached,
                       !.foundAt = Min(foundAt, total)] :
        path \in {"locator", "loaded", "scan"}, total \in ManifestCounts,
        foundAt \in {0, 1, BrowseBatchSize}, stored \in BOOLEAN, cached \in BOOLEAN}
    \cup
    {[CallsIdle EXCEPT !.op = "loadCategoryChunks", !.categoriesStored = stored] :
        stored \in BOOLEAN}
    \cup
    {[CallsIdle EXCEPT !.op = "buildPrecomputedIconMapping", !.path = path,
                       !.total = total, !.indexStored = stored] :
        path \in {"built", "build"}, total \in ManifestCounts, stored \in BOOLEAN}

CallsInit ==
    /\ EngineFieldsInit
    /\ loadedChunks = NewLRUCache(CacheCapacity)
    /\ last = CallsIdle
    /\ hist = HistInit

\* a call is made
CallMade ==
    /\ last.pc = "idle"
    /\ \E call \in CallsMade : last' = Started(call)
    /\ UNCHANGED <<engineVars, loadedChunks, hist>>

\* the request for chunks-index.json is answered, or fails and /chunks-info
\* is requested; the request for /chunks-info is answered, or fails and the
\* call throws
ManifestAnswered ==
    /\ last.pc \in {"index-primary", "index-fallback"}
    /\ \E ok \in BOOLEAN :
         last' = IF ok
                 THEN WithIndex([last EXCEPT !.inflight = 0])
                 ELSE IF last.pc = "index-primary"
                 THEN [last EXCEPT !.pc = "index-fallback", !.indexFetches = @ + 1]
                 ELSE Rejected(last)
    /\ UNCHANGED <<engineVars, loadedChunks, hist>>

\* the request for category-chunks.json is answered with the map, or fails:
\* the retry timer is started, or the empty map is stored
CategoryMapAnswered ==
    /\ last.pc = "categories"
    /\ \E ok \in BOOLEAN :
         last' = IF ok
                 THEN WithCategories([last EXCEPT !.inflight = 0])
                 ELSE IF last.retryCount < MaxRetries
                 THEN [last EXCEPT !.pc = "categories-wait", !.inflight = 0]
                 ELSE WithCategories([last EXCEPT !.inflight = 0, !.listed = 0])
    /\ UNCHANGED <<engineVars, loadedChunks, hist>>

\* the retry timer fires: loadCategoryChunks(retryCount + 1), which finds a
\* value stored meanwhile or requests the file again
RetryTimerFired ==
    /\ last.pc = "categories-wait"
    /\ \E stored \in BOOLEAN :
         last' = CategoriesFrom(last, stored, last.retryCount + 1)
    /\ UNCHANGED <<engineVars, loadedChunks, hist>>

\* a chunk request of the batch in flight is answered, or fails; when all are,
\* getIcons starts its timer if chunks remain, and the loops go on
BatchChunkAnswered ==
    /\ last.pc = "batch"
    /\ last' = IF last.inflight > 1
               THEN [last EXCEPT !.inflight = @ - 1]
               ELSE IF last.timer /\ last.i + last.size < last.count
               THEN [last EXCEPT !.pc = "delay", !.inflight = 0]
               ELSE BatchesFrom([last EXCEPT !.inflight = 0], last.i + last.size)
    /\ UNCHANGED <<engineVars, loadedChunks, hist>>

\* setTimeout(resolve, 100) fires
BatchDelayElapsed ==
    /\ last.pc = "delay"
    /\ last' = BatchesFrom(last, last.i + last.size)
    /\ UNCHANGED <<engineVars, loadedChunks, hist>>

\* the chunk request of getFullIconData is answered, or fails
ResultChunkAnswered ==
    /\ last.pc = "resolving"
    /\ last' = ResolveResultsFrom([last EXCEPT !.inflight = 0], last.j + 1)
    /\ UNCHANGED <<engineVars, loadedChunks, hist>>

\* the chunk request of getIcon is answered, or fails: the chunk of the
\* locator is searched and the call returns; the chunk scanned is searched
\* and the scan goes on past it unless it holds the record
LookupChunkAnswered ==
    /\ last.pc \in {"lookup", "scanning"}
    /\ \E ok \in BOOLEAN :
         last' = IF last.pc = "lookup" \/ (ok /\ last.i = last.foundAt)
                 THEN Resolved(last)
                 ELSE ScanFrom([last EXCEPT !.inflight = 0], last.i + 1)
    /\ UNCHANGED <<engineVars, loadedChunks, hist>>

\* a sample request of buildPrecomputedIconMapping is answered, or fails
MappingSampleAnswered ==
    /\ last.pc = "sampling"
    /\ last' = IF last.inflight > 1
               THEN [last EXCEPT !.inflight = @ - 1]
               ELSE Resolved(last)
    /\ UNCHANGED <<engineVars, loadedChunks, hist>>

\* the caller takes the result, or catches the error
CallSettled ==
    /\ last.pc \in {"resolved", "rejected"}
    /\ last' = CallsIdle
    /\ UNCHANGED <<engineVars, loadedChunks, hist>>

CallsNext ==
    \/ CallMade
    \/ ManifestAnswered
    \/ CategoryMapAnswered
    \/ RetryTimerFired
    \/ BatchChunkAnswered
    \/ BatchDelayElapsed
    \/ ResultChunkAnswered
    \/ LookupChunkAnswered
    \/ MappingSampleAnswered
    \/ CallSettled

SpecCalls == CallsInit /\ [][CallsNext]_vars

\* every request made is answered in the end and every timer fires
SpecCallsFair ==
    /\ SpecCalls
    /\ WF_vars(ManifestAnswered)
    /\ WF_vars(CategoryMapAnswered)
    /\ WF_vars(RetryTimerFired)
    /\ WF_vars(BatchChunkAnswered)
    /\ WF_vars(BatchDelayElapsed)
    /\ WF_vars(ResultChunkAnswered)
    /\ WF_vars(LookupChunkAnswered)
    /\ WF_vars(MappingSampleAnswered)

\* the chunk requests a call may make: as many as the manifest counts chunks
\* (one for the chunk the locator names), or two per result of a search
ChunkFetchBound(call) ==
    IF call.path = "search"
    THEN 2 * (IF call.op = "getIcons" THEN 2 * call.limit ELSE call.limit)
    ELSE IF call.path = "locator" THEN 1 ELSE call.total

\* the requests of a call stay within their bounds
FetchesBounded ==
    /\ last.catFetches <= MaxRetries + 1
    /\ last.indexFetches <= 2
    /\ last.chunkFetches <= ChunkFetchBound(last)

\* C38: every request made being answered in the end and every timer firing,
\* each getIcons, getIcon, searchIcons, loadCategoryChunks and
\* buildPrecomputedIconMapping call resolves or rejects in the end, having
\* made at most 4 requests for the category map, at most 2 for the manifest
\* and a number of chunk requests bounded by the manifest's chunk count or by
\* the number of results asked for.
C38_EveryCallTerminates ==
    /\ []FetchesBounded
    /\ (last.op # "idle") ~> (last.pc \in {"resolved", "rejected"})

\* a getIcons call has returned after four failed requests for the category
\* map and a request for each manifest source
C38_Witness ==
    /\ last.op = "getIcons"
    /\ last.pc = "resolved"
    /\ last.catFetches = MaxRetries + 1
    /\ last.indexFetches = 2
    /\ last.total > BrowseBatchSize

=============================================================================
